---- MODULE Spec2Model ----
(***************************************************************************)
(* nilla-utils: the live progress reporters (internal/tui).                *)
(*                                                                         *)
(* A reporter is a bubbletea model: Update(msg) returns the new model and  *)
(* a command.  The runtime runs a command in its own goroutine and feeds   *)
(* the message it produces back to Update later, so other messages may be  *)
(* processed in between.  The model keeps that: a handler is an operator   *)
(* from (model, message) to the set of its possible outcomes               *)
(* [m |-> model, cmd |-> command] (a set, because Go's map iteration order *)
(* is unspecified), and a command's message is a separate, later step.     *)
(*                                                                         *)
(* Strings are sequences of tokens.  A store path is a sequence of single  *)
(* characters for its first 44 bytes so that p[44:] is exact.              *)
(***************************************************************************)
EXTENDS Integers, Sequences, FiniteSets, TLC

VARIABLES
    env,        \* the input class the run's events are drawn from
    reporter,   \* "build" | "copy": which reporter's Run this is
    m,          \* the tea.Model held by the program (buildModel or copyModel)
    msgs,       \* feature commands issued whose featureMsg is not yet delivered
    tick,       \* due time of the pending rotation-check timer, or NoTick
    now,        \* wall clock, milliseconds
    run,        \* "running" | "done": whether Run has returned
    ret,        \* what Run returned (the texts of the joined error; <<>> is nil)
    nextID,     \* the build tool's activity-id counter
    sent,       \* per live file transfer / copy: the last progress the tool reported
    lvl0,       \* history: the texts of the level-0 messages processed
    scen,       \* history: how far the run so far follows ScenarioEvents, or Off
    st,         \* the live-reporting operation around the reporter (runWithReporter)
    ssh,        \* a command on a remote executor and its session
    conn,       \* the set-up of a connection to a remote target (NewSSHExecutor)
    call,       \* one call of a function of the tool: its inputs and its result
    vfs         \* a virtiofsd runner: the log it monitors and its Ready channel

vars == <<env, reporter, m, msgs, tick, now, run, ret, nextID, sent, lvl0, scen, st, ssh, conn, call, vfs>>

(***************************************************************************)
(* Bounds of the model and constants of the program.                       *)
(***************************************************************************)
MaxID == 2
MaxBytes == 1
MaxErrs == 2
MaxClock == 1
\* a message level that is neither error (0) nor warning (1)
OtherLevel == 3

minFeatureDuration == 100
StorePrefixLen == 44
MsgLevelError == 0
MsgLevelWarning == 1

NoTick == 0 - 1
Off == 0 - 1
\* time.Time{}: far enough in the past that any dwell has elapsed
ZeroTime == 0 - minFeatureDuration
\* the clock advances one dwell at a time
ClockStep == minFeatureDuration


(***************************************************************************)
(* Strings and maps.                                                       *)
(***************************************************************************)
Digits == <<"0", "1", "2", "3", "4", "5", "6", "7", "8", "9">>

\* fmt's %d / %.2f of a small non-negative number, as one token
Itoa(n) == IF n \in 0 .. 9 THEN Digits[n + 1] ELSE "N"

HasPrefix(s, p) ==
    Len(s) >= Len(p) /\ SubSeq(s, 1, Len(p)) = p

HasSuffix(s, p) ==
    Len(s) >= Len(p) /\ SubSeq(s, Len(s) - Len(p) + 1, Len(s)) = p

TrimSuffix(s, p) ==
    IF HasSuffix(s, p) THEN SubSeq(s, 1, Len(s) - Len(p)) ELSE s

Contains(s, tok) == \E i \in 1 .. Len(s) : s[i] = tok

MapPut(f, k, v) == [x \in DOMAIN f \cup {k} |-> IF x = k THEN v ELSE f[x]]

MapDelete(f, k) == [x \in DOMAIN f \ {k} |-> f[x]]

EmptyMap == [x \in {} |-> 0]

RECURSIVE SumOver(_, _)
SumOver(f, S) ==
    IF S = {} THEN 0
    ELSE LET x == CHOOSE y \in S : TRUE
         IN  f[x] + SumOver(f, S \ {x})

StorePrefix == [i \in 1 .. StorePrefixLen |-> "/"]
DrvSuffix == <<".", "d", "r", "v">>

\* the store paths the build tool reports
BuildPaths == {StorePrefix \o <<"A">> \o DrvSuffix}
CopyPaths == {StorePrefix \o <<"B">>}

\* p[44:]
extractName(p) == SubSeq(p, StorePrefixLen + 1, Len(p))

(***************************************************************************)
(* Commands a handler returns.                                             *)
(***************************************************************************)
NoCmd == [type |-> "none"]
PrintCmd == [type |-> "print"]
featureCmd(id, kind) == [type |-> "feature", id |-> id, kind |-> kind]
scheduleRotationCheck == [type |-> "tick"]

Out(mm, c) == [m |-> mm, cmd |-> c]

(***************************************************************************)
(* tui.go: progress, transfer, copy.                                       *)
(***************************************************************************)
progress(id) == [id |-> id, done |-> 0, expected |-> 0, running |-> 0]

transfer(id) == [id |-> id, done |-> 0, expected |-> 0]

newCopy(name) == [name |-> name, done |-> 0, total |-> 0]

\* (c *copy) String()
copyString(c) ==
    IF c.total > 0
    THEN c.name \o <<" [", Itoa(c.done), "/", Itoa(c.total), " B]">>
    ELSE c.name

\* (c copies) done()
copiesDone(c) == SumOver([i \in DOMAIN c |-> c[i].done], DOMAIN c)

\* (b *build) String()
buildString(b) ==
    IF b.phase # <<>> THEN b.name \o <<" [">> \o b.phase \o <<"]">> ELSE b.name

(***************************************************************************)
(* build_reporter.go: buildModel.                                          *)
(***************************************************************************)
initBuildModel(verbose) ==
    [ verbose |-> verbose,
      initialized |-> FALSE,
      buildProgress |-> progress(0),
      copyPathsProgress |-> progress(0),
      realiseProgress |-> transfer(0),
      downloads |-> EmptyMap,
      transfers |-> EmptyMap,
      builds |-> EmptyMap,
      lastMsg |-> <<"Initializing build...">>,
      errs |-> <<>>,
      featuredID |-> 0,
      featuredKind |-> "",
      featuredSince |-> ZeroTime,
      rotationPending |-> FALSE ]

\* buildModel.error(): errors.Join of the recorded errors, nil when there are none
buildError(mm) == mm.errs

\* a selection that stays in the current category while it has another item
buildSelectNextActiveSameFirst(mm) ==
    LET cur == mm.featuredID
        own == IF mm.featuredKind = "download" THEN DOMAIN mm.downloads
               ELSE DOMAIN mm.builds
        ownKind == IF mm.featuredKind = "download" THEN "download" ELSE "build"
        other == IF mm.featuredKind = "download" THEN DOMAIN mm.builds
                 ELSE DOMAIN mm.downloads
        otherKind == IF mm.featuredKind = "download" THEN "build" ELSE "download"
    IN  IF own \ {cur} # {}
        THEN {[id |-> i, kind |-> ownKind, ok |-> TRUE] : i \in own \ {cur}}
        ELSE IF other # {}
        THEN {[id |-> i, kind |-> otherKind, ok |-> TRUE] : i \in other}
        ELSE IF cur \in own
        THEN {[id |-> cur, kind |-> ownKind, ok |-> TRUE]}
        ELSE {[id |-> 0, kind |-> "", ok |-> FALSE]}

\* the outcomes of selectNextActive: any element a map iteration may yield first
buildSelectNextActive(mm) ==
    LET cur == mm.featuredID
        keep ==
            IF mm.featuredKind = "build"
            THEN IF cur \in DOMAIN mm.builds
                 THEN {[id |-> cur, kind |-> "build", ok |-> TRUE]}
                 ELSE {[id |-> 0, kind |-> "", ok |-> FALSE]}
            ELSE IF cur \in DOMAIN mm.downloads
                 THEN {[id |-> cur, kind |-> "download", ok |-> TRUE]}
                 ELSE {[id |-> 0, kind |-> "", ok |-> FALSE]}
        anyBuild(S) == {[id |-> i, kind |-> "build", ok |-> TRUE] : i \in S}
        anyDownload(S) == {[id |-> i, kind |-> "download", ok |-> TRUE] : i \in S}
    IN  IF mm.featuredKind = "download"
        THEN IF DOMAIN mm.builds # {} THEN anyBuild(DOMAIN mm.builds)
             ELSE IF DOMAIN mm.downloads \ {cur} # {}
                  THEN anyDownload(DOMAIN mm.downloads \ {cur})
                  ELSE keep
        ELSE IF DOMAIN mm.downloads # {} THEN anyDownload(DOMAIN mm.downloads)
             ELSE IF DOMAIN mm.builds \ {cur} # {}
                  THEN anyBuild(DOMAIN mm.builds \ {cur})
                  ELSE keep

buildIsFeaturedActive(mm) ==
    IF mm.featuredKind = "build"
    THEN mm.featuredID \in DOMAIN mm.builds
    ELSE mm.featuredID \in DOMAIN mm.downloads

buildFormatFeaturedItem(mm) ==
    IF mm.featuredKind = "build"
    THEN IF mm.featuredID \in DOMAIN mm.builds
         THEN buildString(mm.builds[mm.featuredID])
         ELSE <<>>
    ELSE IF mm.featuredID \in DOMAIN mm.downloads
         THEN copyString(mm.downloads[mm.featuredID])
         ELSE <<>>

\* Update, case rotationCheckMsg; t is the time the message carries
buildUpdateRotationCheck(mm, t) ==
    LET m1 == [mm EXCEPT !.rotationPending = FALSE]
        rotated ==
            IF m1.featuredID # 0 /\ t - m1.featuredSince >= minFeatureDuration
            THEN { IF r.ok
                   THEN LET m2 == [m1 EXCEPT !.featuredID = r.id,
                                             !.featuredKind = r.kind,
                                             !.featuredSince = t]
                        IN  [m2 EXCEPT !.lastMsg = buildFormatFeaturedItem(m2)]
                   ELSE IF ~buildIsFeaturedActive(m1)
                        THEN [m1 EXCEPT !.featuredID = 0,
                                        !.lastMsg = IF ~m1.verbose THEN <<>> ELSE @]
                        ELSE m1
                   : r \in buildSelectNextActive(m1) }
            ELSE {m1}
    IN  { IF DOMAIN m2.builds # {} \/ DOMAIN m2.downloads # {}
          THEN Out([m2 EXCEPT !.rotationPending = TRUE], scheduleRotationCheck)
          ELSE Out(m2, NoCmd)
          : m2 \in rotated }

\* Update, case featureMsg
buildUpdateFeature(mm, msg) ==
    LET m1 == [mm EXCEPT !.featuredID = msg.id,
                         !.featuredKind = msg.kind,
                         !.featuredSince = msg.at]
    IN  {Out([m1 EXCEPT !.lastMsg = buildFormatFeaturedItem(m1)], NoCmd)}

buildHandleStartEvent(mm, ev) ==
    CASE ev.type = "copyPaths" ->
           {Out([mm EXCEPT !.copyPathsProgress = progress(ev.id),
                           !.initialized = TRUE], NoCmd)}
      [] ev.type = "builds" ->
           {Out([mm EXCEPT !.buildProgress = progress(ev.id),
                           !.initialized = TRUE], NoCmd)}
      [] ev.type = "realise" ->
           {Out([mm EXCEPT !.realiseProgress = transfer(ev.id)], NoCmd)}
      [] ev.type = "copyPath" ->
           LET m1 == [mm EXCEPT !.downloads =
                          MapPut(@, ev.id, newCopy(extractName(ev.path)))]
           IN  IF m1.featuredID = 0
               THEN {Out(m1, featureCmd(ev.id, "download"))}
               ELSE IF m1.verbose THEN {Out(m1, PrintCmd)} ELSE {Out(m1, NoCmd)}
      [] ev.type = "fileTransfer" ->
           IF ev.parent \notin DOMAIN mm.downloads
           THEN {Out(mm, NoCmd)}
           ELSE {Out([mm EXCEPT !.transfers = MapPut(@, ev.id, ev.parent)], NoCmd)}
      [] ev.type = "build" ->
           LET m1 == [mm EXCEPT !.builds =
                          MapPut(@, ev.id,
                                 [name |-> TrimSuffix(extractName(ev.path), DrvSuffix),
                                  phase |-> <<>>])]
           IN  IF m1.featuredID = 0
               THEN {Out(m1, featureCmd(ev.id, "build"))}
               ELSE {Out(m1, NoCmd)}
      [] OTHER -> {Out(mm, NoCmd)}

buildHandleStopEvent(mm, ev) ==
    LET m1 == [mm EXCEPT !.builds = MapDelete(@, ev.id),
                         !.transfers = MapDelete(@, ev.id)]
        m2 == IF ev.id \in DOMAIN m1.downloads
              THEN [m1 EXCEPT !.realiseProgress.done = @ + m1.downloads[ev.id].total,
                              !.downloads = MapDelete(@, ev.id)]
              ELSE m1
        allDone(x) ==
            IF x.initialized /\ DOMAIN x.builds = {} /\ DOMAIN x.downloads = {}
            THEN [x EXCEPT !.lastMsg = <<>>]
            ELSE x
    IN  IF m2.featuredID = ev.id
        THEN { IF r.ok
               THEN Out(m2, featureCmd(r.id, r.kind))
               ELSE Out(allDone([m2 EXCEPT !.featuredID = 0,
                                           !.lastMsg = IF ~m2.verbose THEN <<>> ELSE @]),
                        NoCmd)
               : r \in buildSelectNextActive(m2) }
        ELSE {Out(allDone(m2), NoCmd)}

buildHandleResultEvent(mm, ev) ==
    CASE ev.type = "setPhase" ->
           IF ev.id \notin DOMAIN mm.builds
           THEN {Out(mm, NoCmd)}
           ELSE LET m1 == [mm EXCEPT !.builds[ev.id].phase = ev.phase]
                IN  IF m1.featuredID = ev.id /\ m1.featuredKind = "build"
                    THEN {Out([m1 EXCEPT !.lastMsg = buildString(m1.builds[ev.id])],
                              NoCmd)}
                    ELSE {Out(m1, NoCmd)}
      [] ev.type = "progress" ->
           IF ev.id = mm.copyPathsProgress.id
           THEN {Out([mm EXCEPT !.copyPathsProgress =
                          [id |-> ev.id, done |-> ev.done,
                           expected |-> ev.expected, running |-> ev.running]],
                     NoCmd)}
           ELSE IF ev.id = mm.buildProgress.id
           THEN {Out([mm EXCEPT !.buildProgress =
                          [id |-> ev.id, done |-> ev.done,
                           expected |-> ev.expected, running |-> ev.running]],
                     NoCmd)}
           ELSE IF ev.id \notin DOMAIN mm.transfers
           THEN {Out(mm, NoCmd)}
           ELSE LET parent == mm.transfers[ev.id]
                IN  IF parent \notin DOMAIN mm.downloads
                    THEN {Out(mm, NoCmd)}
                    ELSE LET m1 == [mm EXCEPT !.downloads[parent].done = ev.done,
                                              !.downloads[parent].total = ev.expected]
                         IN  IF m1.featuredID = parent /\ m1.featuredKind = "download"
                             THEN {Out([m1 EXCEPT !.lastMsg =
                                            copyString(m1.downloads[parent])],
                                       NoCmd)}
                             ELSE {Out(m1, NoCmd)}
      [] ev.type = "setExpectedFileTransfer" ->
           IF ev.id = mm.realiseProgress.id
           THEN {Out([mm EXCEPT !.realiseProgress.expected = ev.expected], NoCmd)}
           ELSE {Out(mm, NoCmd)}
      [] ev.type = "buildLogLine" ->
           IF mm.verbose /\ ev.id \in DOMAIN mm.builds
           THEN {Out(mm, PrintCmd)}
           ELSE {Out(mm, NoCmd)}
      [] OTHER -> {Out(mm, NoCmd)}

\* strings.HasPrefix(text, "trace: ") && strings.Contains(text, "warning:")
isTraceWarning(text) == HasPrefix(text, <<"trace: ">>) /\ Contains(text, "warning:")

\* a Message handler that records every level-0 message, trace warnings included
buildHandleMessageEventAllErrors(mm, ev) ==
    IF ev.level = MsgLevelError
    THEN {Out([mm EXCEPT !.errs = Append(@, ev.text)], NoCmd)}
    ELSE IF mm.verbose \/ ev.level = MsgLevelWarning
    THEN {Out(mm, PrintCmd)}
    ELSE {Out([mm EXCEPT !.lastMsg = ev.text], NoCmd)}

buildHandleMessageEvent(mm, ev) ==
    IF ev.level = MsgLevelError /\ ~isTraceWarning(ev.text)
    THEN {Out([mm EXCEPT !.errs = Append(@, ev.text)], NoCmd)}
    ELSE IF mm.verbose \/ ev.level = MsgLevelWarning \/ isTraceWarning(ev.text)
    THEN {Out(mm, PrintCmd)}
    ELSE {Out([mm EXCEPT !.lastMsg = ev.text], NoCmd)}

\* an Update that ignores Start, Stop and Result events once an error is recorded
buildHandleEventHaltOnError(mm, ev) ==
    CASE ev.action = "message" -> buildHandleMessageEvent(mm, ev)
      [] ev.action # "message" /\ mm.errs # <<>> -> {Out(mm, NoCmd)}
      [] ev.action = "start" -> buildHandleStartEvent(mm, ev)
      [] ev.action = "stop" -> buildHandleStopEvent(mm, ev)
      [] ev.action = "result" -> buildHandleResultEvent(mm, ev)
      [] OTHER -> {Out(mm, NoCmd)}

buildHandleEvent(mm, ev) ==
    CASE ev.action = "start" -> buildHandleStartEvent(mm, ev)
      [] ev.action = "stop" -> buildHandleStopEvent(mm, ev)
      [] ev.action = "result" -> buildHandleResultEvent(mm, ev)
      [] ev.action = "message" -> buildHandleMessageEvent(mm, ev)
      [] OTHER -> {Out(mm, NoCmd)}

(***************************************************************************)
(* copy_reporter.go: copyModel.                                            *)
(***************************************************************************)
initCopyModel(verbose) ==
    [ verbose |-> verbose,
      initialized |-> FALSE,
      copyPathsProgress |-> progress(0),
      transferProgress |-> transfer(0),
      copies |-> EmptyMap,
      transfers |-> EmptyMap,
      lastMsg |-> <<"Initializing...">>,
      err |-> <<>>,
      featuredID |-> 0,
      featuredSince |-> ZeroTime,
      rotationPending |-> FALSE ]

\* copyModel.error(): the one error kept, nil when there is none
copyError(mm) == mm.err

copySelectNextActive(mm) ==
    LET cur == mm.featuredID
    IN  IF DOMAIN mm.copies \ {cur} # {}
        THEN {[id |-> i, ok |-> TRUE] : i \in DOMAIN mm.copies \ {cur}}
        ELSE IF cur \in DOMAIN mm.copies
             THEN {[id |-> cur, ok |-> TRUE]}
             ELSE {[id |-> 0, ok |-> FALSE]}

copyFormatFeaturedItem(mm) ==
    IF mm.featuredID \in DOMAIN mm.copies
    THEN copyString(mm.copies[mm.featuredID])
    ELSE <<>>

copyUpdateRotationCheck(mm, t) ==
    LET m1 == [mm EXCEPT !.rotationPending = FALSE]
        rotated ==
            IF m1.featuredID # 0 /\ t - m1.featuredSince >= minFeatureDuration
            THEN { IF r.ok
                   THEN LET m2 == [m1 EXCEPT !.featuredID = r.id,
                                             !.featuredSince = t]
                        IN  [m2 EXCEPT !.lastMsg = copyFormatFeaturedItem(m2)]
                   ELSE IF m1.featuredID \notin DOMAIN m1.copies
                        THEN [m1 EXCEPT !.featuredID = 0,
                                        !.lastMsg = IF ~m1.verbose THEN <<>> ELSE @]
                        ELSE m1
                   : r \in copySelectNextActive(m1) }
            ELSE {m1}
    IN  { IF DOMAIN m2.copies # {}
          THEN Out([m2 EXCEPT !.rotationPending = TRUE], scheduleRotationCheck)
          ELSE Out(m2, NoCmd)
          : m2 \in rotated }

copyUpdateFeature(mm, msg) ==
    LET m1 == [mm EXCEPT !.featuredID = msg.id, !.featuredSince = msg.at]
    IN  {Out([m1 EXCEPT !.lastMsg = copyFormatFeaturedItem(m1)], NoCmd)}

copyHandleStartEvent(mm, ev) ==
    CASE ev.type = "copyPaths" ->
           {Out([mm EXCEPT !.copyPathsProgress = progress(ev.id),
                           !.transferProgress = transfer(ev.id),
                           !.initialized = TRUE], NoCmd)}
      [] ev.type = "copyPath" ->
           LET m1 == [mm EXCEPT !.copies = MapPut(@, ev.id, newCopy(ev.path))]
           IN  IF m1.featuredID = 0
               THEN {Out(m1, featureCmd(ev.id, ""))}
               ELSE IF m1.verbose THEN {Out(m1, PrintCmd)} ELSE {Out(m1, NoCmd)}
      [] ev.type = "fileTransfer" ->
           IF ev.parent \notin DOMAIN mm.copies
           THEN {Out(mm, NoCmd)}
           ELSE {Out([mm EXCEPT !.transfers = MapPut(@, ev.id, ev.parent)], NoCmd)}
      [] OTHER -> {Out(mm, NoCmd)}

copyHandleStopEvent(mm, ev) ==
    LET isCopy == ev.id \in DOMAIN mm.copies
        m1 == IF isCopy
              THEN [mm EXCEPT !.transferProgress.done = @ + mm.copies[ev.id].total,
                              !.copies = MapDelete(@, ev.id)]
              ELSE mm
        m2 == [m1 EXCEPT !.transfers = MapDelete(@, ev.id)]
        allDone(x) ==
            IF x.initialized /\ DOMAIN x.copies = {}
            THEN [x EXCEPT !.lastMsg = <<>>]
            ELSE x
    IN  IF isCopy /\ mm.verbose
        THEN {Out([m1 EXCEPT !.lastMsg = <<>>], PrintCmd)}
        ELSE IF m2.featuredID = ev.id
        THEN { IF r.ok
               THEN Out(m2, featureCmd(r.id, ""))
               ELSE Out(allDone([m2 EXCEPT !.featuredID = 0,
                                           !.lastMsg = IF ~m2.verbose THEN <<>> ELSE @]),
                        NoCmd)
               : r \in copySelectNextActive(m2) }
        ELSE {Out(allDone(m2), NoCmd)}

copyHandleResultEvent(mm, ev) ==
    CASE ev.type = "progress" ->
           IF ev.id = mm.copyPathsProgress.id
           THEN {Out([mm EXCEPT !.copyPathsProgress.done = ev.done,
                                !.copyPathsProgress.expected = ev.expected,
                                !.copyPathsProgress.running = ev.running], NoCmd)}
           ELSE LET found ==
                        IF ev.id \in DOMAIN mm.copies THEN {ev.id}
                        ELSE IF ev.id \in DOMAIN mm.transfers
                                /\ mm.transfers[ev.id] \in DOMAIN mm.copies
                             THEN {mm.transfers[ev.id]}
                             ELSE {}
                IN  IF found = {}
                    THEN {Out(mm, NoCmd)}
                    ELSE LET c == CHOOSE x \in found : TRUE
                             m1 == [mm EXCEPT !.copies[c].done = ev.done,
                                              !.copies[c].total = ev.expected]
                         IN  IF m1.featuredID = ev.id
                                \/ (m1.featuredID \in DOMAIN m1.copies
                                    /\ m1.featuredID = c)
                             THEN {Out([m1 EXCEPT !.lastMsg =
                                            copyString(m1.copies[c])], NoCmd)}
                             ELSE {Out(m1, NoCmd)}
      [] ev.type = "setExpectedCopyPath" ->
           IF ev.id = mm.transferProgress.id
           THEN {Out([mm EXCEPT !.transferProgress.expected = ev.expected], NoCmd)}
           ELSE {Out(mm, NoCmd)}
      [] OTHER -> {Out(mm, NoCmd)}

\* a Message handler that prints every message that is not an error
copyHandleMessageEventPrintAlways(mm, ev) ==
    IF ev.level = 0
    THEN {Out([mm EXCEPT !.err = <<ev.text>>], NoCmd)}
    ELSE {Out(mm, PrintCmd)}

copyHandleMessageEvent(mm, ev) ==
    IF ev.level = 0
    THEN {Out([mm EXCEPT !.err = <<ev.text>>], NoCmd)}
    ELSE IF mm.verbose
    THEN {Out(mm, PrintCmd)}
    ELSE {Out([mm EXCEPT !.lastMsg = ev.text], NoCmd)}

copyHandleEvent(mm, ev) ==
    CASE ev.action = "start" -> copyHandleStartEvent(mm, ev)
      [] ev.action = "stop" -> copyHandleStopEvent(mm, ev)
      [] ev.action = "result" -> copyHandleResultEvent(mm, ev)
      [] ev.action = "message" -> copyHandleMessageEvent(mm, ev)
      [] OTHER -> {Out(mm, NoCmd)}

(***************************************************************************)
(* The events the decoder delivers.  The build tool numbers its activities *)
(* from a counter, so a Start carries a fresh non-zero id; a Stop or a     *)
(* Result may name any id, also one the reporter never saw start.          *)
(*                                                                         *)
(* A run draws its events from one input class (env), which bounds the     *)
(* alphabet of the run, not the handlers:                                  *)
(*   "items"     builds and downloads starting, changing phase, stopping   *)
(*   "bytes"     one download, its file transfers and the byte counts      *)
(*   "messages"  messages of every level                                   *)
(*   "rotation"  three builds and downloads, for the choice of the next    *)
(*               featured item                                             *)
(***************************************************************************)
Envs == {"items", "bytes", "messages"}

Phases == {<<"build">>}
TraceWarningText == <<"trace: ", "warning:", " w">>
ErrorTexts == {<<"a">>, <<"trace: ", "b">>, TraceWarningText}
InfoText == <<"i">>

\* the activities of a run: a download with two file transfers takes three
MaxActivities(e) == IF e \in {"bytes", "rotation"} THEN MaxID + 1 ELSE MaxID

IDs(e) == 0 .. MaxActivities(e)

\* the types activity `id` of a run may have
StartTypes(e, id) ==
    CASE e = "items" -> {"builds", "build", "copyPath"}
      [] e = "bytes" -> IF id = 1 THEN {"copyPath"} ELSE {"realise", "fileTransfer"}
      [] e = "messages" -> {"copyPaths", "copyPath"}
      [] e = "rotation" -> {"build", "copyPath"}

ResultTypes(e) ==
    CASE e = "items" -> {"setPhase"}
      [] e = "bytes" -> {"progress", "setExpectedFileTransfer", "setExpectedCopyPath"}
      [] e = "messages" -> {"buildLogLine"}
      [] e = "rotation" -> {"buildLogLine"}

StartEvents(e, id) ==
    {[action |-> "start", type |-> ty, id |-> id] :
        ty \in StartTypes(e, id) \cap {"copyPaths", "builds", "realise"}}
    \cup {[action |-> "start", type |-> "copyPath", id |-> id, path |-> p] :
            p \in IF "copyPath" \in StartTypes(e, id) THEN CopyPaths ELSE {}}
    \cup {[action |-> "start", type |-> "build", id |-> id, path |-> p] :
            p \in IF "build" \in StartTypes(e, id) THEN BuildPaths ELSE {}}
    \cup {[action |-> "start", type |-> "fileTransfer", id |-> id, parent |-> par] :
            par \in IF "fileTransfer" \in StartTypes(e, id) THEN 0 .. id - 1 ELSE {}}

StopEvents(e) == {[action |-> "stop", id |-> id] : id \in IDs(e)}

\* counts and bytes: done <= expected, the rest of the expected being in progress
ProgressEvents(e) ==
    {[action |-> "result", type |-> "progress", id |-> id,
      done |-> c[1], expected |-> c[2], running |-> c[2] - c[1]] :
        id \in IDs(e),
        c \in {c \in (0 .. MaxBytes) \X (0 .. MaxBytes) : c[1] <= c[2]}}

ResultEvents(e) ==
    (IF "progress" \in ResultTypes(e) THEN ProgressEvents(e) ELSE {})
    \cup {[action |-> "result", type |-> "setPhase", id |-> id, phase |-> ph] :
            id \in IDs(e), ph \in IF "setPhase" \in ResultTypes(e) THEN Phases ELSE {}}
    \cup {[action |-> "result", type |-> ty, id |-> id, expected |-> x] :
            ty \in ResultTypes(e)
                     \cap {"setExpectedFileTransfer", "setExpectedCopyPath"},
            id \in IDs(e), x \in 0 .. MaxBytes}
    \cup {[action |-> "result", type |-> "buildLogLine", id |-> id] :
            id \in IF "buildLogLine" \in ResultTypes(e) THEN IDs(e) ELSE {}}

MessageEvents(e) ==
    CASE e = "items" ->
           {[action |-> "message", level |-> OtherLevel, text |-> InfoText]}
      [] e \in {"bytes", "rotation"} ->
           {[action |-> "message", level |-> MsgLevelWarning, text |-> InfoText]}
      [] e = "messages" ->
           {[action |-> "message", level |-> OtherLevel, text |-> InfoText]}
           \cup {[action |-> "message", level |-> l, text |-> t] :
                   l \in {MsgLevelError, MsgLevelWarning}, t \in ErrorTexts}

\* the build tool reports one transfer's progress with done never decreasing
\* and its expected value fixed
Unreported == 0 - 1

ProgressAllowed(ev) ==
    ev.id \in DOMAIN sent =>
        /\ ev.done >= sent[ev.id].done
        /\ sent[ev.id].expected \in {Unreported, ev.expected}

(***************************************************************************)
(* The program: tea.NewProgram(init).Run() fed by runTUIModel's goroutine. *)
(***************************************************************************)
reporterInit(kind, verbose) ==
    IF kind = "build" THEN initBuildModel(verbose) ELSE initCopyModel(verbose)

\* Update, case nix.Event
handleEvent(mm, ev) ==
    IF reporter = "build" THEN buildHandleEvent(mm, ev) ELSE copyHandleEvent(mm, ev)

\* Update, case featureMsg
updateFeature(mm, msg) ==
    IF reporter = "build" THEN buildUpdateFeature(mm, msg) ELSE copyUpdateFeature(mm, msg)

\* Update, case rotationCheckMsg
updateRotationCheck(mm, t) ==
    IF reporter = "build"
    THEN buildUpdateRotationCheck(mm, t)
    ELSE copyUpdateRotationCheck(mm, t)

\* tuiModel.error()
modelError(mm) ==
    IF reporter = "build" THEN buildError(mm) ELSE copyError(mm)

\* the runtime starts the returned command in a goroutine of its own
Issue(cmd) ==
    msgs' = IF cmd.type = "feature"
            THEN msgs \cup {[id |-> cmd.id, kind |-> cmd.kind]}
            ELSE msgs

\* the five events of the scenario, in order
ScenarioEvents ==
    << [action |-> "start", type |-> "build", id |-> 1,
        path |-> StorePrefix \o <<"A">> \o DrvSuffix],
       [action |-> "result", type |-> "setPhase", id |-> 1, phase |-> <<"build">>],
       [action |-> "start", type |-> "copyPath", id |-> 2,
        path |-> StorePrefix \o <<"B">>],
       [action |-> "stop", id |-> 1],
       [action |-> "stop", id |-> 2] >>

\* scen = k: the events processed so far are exactly the first k scenario events,
\* each processed with no feature message outstanding, and no rotation tick has
\* changed the featured item
ScenAfterEvent(ev) ==
    IF scen # Off /\ scen < Len(ScenarioEvents) /\ msgs = {}
       /\ ev = ScenarioEvents[scen + 1]
    THEN scen + 1
    ELSE Off

\* the reporter is fed directly: no operation and no remote command around it
NoOperation == [op |-> "none"]
NoCommand == [pc |-> "none"]
\* a part of the program that a run does not involve
Unused == [pc |-> "none"]

InitEnv(e) ==
    /\ env = e
    /\ reporter \in {"build", "copy"}
    /\ \E verbose \in BOOLEAN : m = reporterInit(reporter, verbose)
    /\ msgs = {}
    /\ tick = minFeatureDuration      \* Init() schedules the first rotation check
    /\ now = 0
    /\ run = "running"
    /\ ret = <<>>
    /\ nextID = 1
    /\ sent = EmptyMap
    /\ lvl0 = {}
    /\ scen = 0
    /\ st = NoOperation
    /\ conn = Unused
    /\ call = Unused
    /\ vfs = Unused
    /\ ssh = NoCommand

Init == \E e \in Envs : InitEnv(e)

\* p.Send(ev) followed by Update(ev)
Process(ev) ==
    /\ run = "running"
    /\ \E out \in handleEvent(m, ev) :
          /\ m' = out.m
          /\ Issue(out.cmd)
    /\ scen' = ScenAfterEvent(ev)
    /\ UNCHANGED <<env, reporter, tick, now, run, ret>>

StartEvent ==
    /\ nextID <= MaxActivities(env)
    /\ \E ev \in StartEvents(env, nextID) :
          /\ Process(ev)
          /\ sent' = IF ev.type \in {"fileTransfer", "copyPath"}
                     THEN MapPut(sent, ev.id, [done |-> 0, expected |-> Unreported])
                     ELSE sent
    /\ nextID' = nextID + 1
    /\ UNCHANGED lvl0
    /\ UNCHANGED <<st, ssh, conn, call, vfs>>

StopEvent ==
    /\ \E ev \in StopEvents(env) :
          /\ Process(ev)
          /\ sent' = MapDelete(sent, ev.id)
    /\ UNCHANGED <<nextID, lvl0>>
    /\ UNCHANGED <<st, ssh, conn, call, vfs>>

ResultEvent ==
    /\ \E ev \in ResultEvents(env) :
          /\ ev.type = "progress" => ProgressAllowed(ev)
          /\ Process(ev)
          /\ sent' = IF ev.type = "progress" /\ ev.id \in DOMAIN sent
                     THEN MapPut(sent, ev.id, [done |-> ev.done, expected |-> ev.expected])
                     ELSE sent
    /\ UNCHANGED <<nextID, lvl0>>
    /\ UNCHANGED <<st, ssh, conn, call, vfs>>

MessageEvent ==
    /\ \E ev \in MessageEvents(env) :
          /\ (reporter = "build" /\ ev.level = MsgLevelError) => Len(m.errs) < MaxErrs
          /\ Process(ev)
          /\ lvl0' = IF ev.level = MsgLevelError THEN lvl0 \cup {ev.text} ELSE lvl0
    /\ UNCHANGED <<nextID, sent>>
    /\ UNCHANGED <<st, ssh, conn, call, vfs>>

\* a featureCmd's goroutine has read time.Now() and its featureMsg reaches Update
DeliverFeature ==
    /\ run = "running"
    /\ \E f \in msgs :
          /\ \E out \in updateFeature(m, [id |-> f.id, kind |-> f.kind, at |-> now]) :
                m' = out.m
          /\ msgs' = msgs \ {f}
    /\ UNCHANGED <<env, reporter, tick, now, run, ret, nextID, sent, lvl0, scen>>
    /\ UNCHANGED <<st, ssh, conn, call, vfs>>

\* the rotation timer has fired and its rotationCheckMsg reaches Update
DeliverTick ==
    /\ run = "running"
    /\ tick # NoTick /\ now >= tick
    /\ \E out \in updateRotationCheck(m, tick) :
          /\ m' = out.m
          /\ tick' = IF out.cmd.type = "tick" THEN now + minFeatureDuration ELSE NoTick
          /\ scen' = IF out.m.featuredID # m.featuredID THEN Off ELSE scen
    /\ UNCHANGED <<env, reporter, msgs, now, run, ret, nextID, sent, lvl0>>
    /\ UNCHANGED <<st, ssh, conn, call, vfs>>

Advance ==
    /\ run = "running"
    /\ now + ClockStep <= MaxClock * ClockStep
    /\ now' = now + ClockStep
    /\ UNCHANGED <<env, reporter, m, msgs, tick, run, ret, nextID, sent, lvl0, scen>>
    /\ UNCHANGED <<st, ssh, conn, call, vfs>>

\* decoder.Events is closed: the goroutine calls p.Quit(), p.Run() returns the
\* model and runTUIModel returns its error()
Close ==
    /\ run = "running"
    /\ run' = "done"
    /\ ret' = modelError(m)
    /\ UNCHANGED <<env, reporter, m, msgs, tick, now, nextID, sent, lvl0, scen>>
    /\ UNCHANGED <<st, ssh, conn, call, vfs>>

Next ==
    \/ StartEvent
    \/ StopEvent
    \/ ResultEvent
    \/ MessageEvent
    \/ DeliverFeature
    \/ DeliverTick
    \/ Advance
    \/ Close

Spec == Init /\ [][Next]_vars

SpecItems == InitEnv("items") /\ [][Next]_vars

SpecBytes == InitEnv("bytes") /\ [][Next]_vars

SpecMessages == InitEnv("messages") /\ [][Next]_vars

\* the build reporter in compact mode with three items
InitRotation ==
    /\ InitEnv("rotation")
    /\ reporter = "build"
    /\ ~m.verbose

SpecRotation == InitRotation /\ [][Next]_vars

(***************************************************************************)
(* The claims.                                                             *)
(***************************************************************************)
\* the items a reporter can feature
Active(mm) ==
    IF reporter = "build"
    THEN DOMAIN mm.builds \cup DOMAIN mm.downloads
    ELSE DOMAIN mm.copies

\* the featured slot names a live item (of the featured kind)
FeaturesLiveItem(mm) ==
    IF reporter = "build"
    THEN \/ mm.featuredKind = "build" /\ mm.featuredID \in DOMAIN mm.builds
         \/ mm.featuredKind = "download" /\ mm.featuredID \in DOMAIN mm.downloads
    ELSE mm.featuredID \in DOMAIN mm.copies

\* C1: in the build reporter, after every processed message, the featured id
\* names an active build or download whenever one is active, and nothing is
\* featured when none is; so a Start that finds nothing featured has its item
\* featured in the state right after it.
C1_ExactlyOneFeatured ==
    (reporter = "build" /\ run = "running") =>
        IF Active(m) = {} THEN m.featuredID = 0 ELSE FeaturesLiveItem(m)

\* C2: right after a Stop of the currently featured item has been processed,
\* the featured id is not the stopped id: it names another active item if one
\* is left and is 0 if none is.
C2_StopReplacesFeatured ==
    [][ \A ev \in StopEvents(env) :
          (FeaturesLiveItem(m) /\ m.featuredID = ev.id /\ Process(ev)) =>
              /\ m'.featuredID # ev.id
              /\ IF Active(m') = {} THEN m'.featuredID = 0 ELSE FeaturesLiveItem(m')
      ]_vars

\* C3: in the build reporter, a featured item that is active before and after
\* a step is replaced by a different item in that step only if the minimum
\* dwell time has elapsed since it became featured.
C3_DwellBeforeReplacement ==
    [][ ( /\ reporter = "build"
          /\ FeaturesLiveItem(m)
          /\ m.featuredID \in Active(m')
          /\ m'.featuredID # m.featuredID )
        => now - m.featuredSince >= minFeatureDuration
      ]_vars

\* C4: after the scenario's events (each feature message applied before the
\* next event, no rotation tick replacing the featured item) the featured item
\* is build 1 until the build stops, then download 2, then none, and the
\* aggregate counts show 1 build done and 1 download done at the end.
C4_ScenarioOutcome ==
    reporter = "build" =>
        /\ (scen \in 1 .. 3 /\ msgs = {}) =>
               m.featuredID = 1 /\ m.featuredKind = "build"
        /\ (scen = 4 /\ msgs = {}) =>
               m.featuredID = 2 /\ m.featuredKind = "download"
        /\ scen = 5 =>
               /\ m.featuredID = 0
               /\ m.buildProgress.done = 1
               /\ m.copyPathsProgress.done = 1

\* the ids of the reporter's live builds, downloads (copies) and file transfers
LiveItems(mm) == Active(mm) \cup DOMAIN mm.transfers

\* C5: a Stop whose id matches no live build, download or file transfer leaves
\* the reporter state as it was and issues no command.
C5_UnknownStopIsNoOp ==
    [][ \A ev \in StopEvents(env) :
          (ev.id \notin LiveItems(m) /\ Process(ev)) => (m' = m /\ msgs' = msgs)
      ]_vars

\* the ids of the batch activities the reporter has seen start
StartedBatches(mm) ==
    (IF reporter = "build"
     THEN {mm.buildProgress.id, mm.copyPathsProgress.id, mm.realiseProgress.id}
     ELSE {mm.copyPathsProgress.id, mm.transferProgress.id}) \ {0}

\* C6: a Result whose id names no live build, download or file transfer and no
\* started batch activity (id 0 before any batch start included) leaves the
\* reporter state, its byte and count aggregates included, as it was.
C6_UnknownResultIgnored ==
    [][ \A ev \in ResultEvents(env) :
          (ev.id \notin LiveItems(m) \cup StartedBatches(m) /\ Process(ev)) => m' = m
      ]_vars

\* the done download bytes the build reporter shows (fmtDownloads)
DoneBytes(mm) == mm.realiseProgress.done + copiesDone(mm.downloads)

\* C7: in the build reporter the done download bytes shown never decrease, the
\* tool reporting each transfer with non-decreasing done and a fixed expected.
C7_DoneBytesNeverDecrease ==
    [][ reporter = "build" => DoneBytes(m') >= DoneBytes(m) ]_vars

\* C8: in every reachable state the expected bytes of the aggregate and of each
\* download (copy) are at least the bytes accounted as done for it.
C8_ExpectedCoversDone ==
    IF reporter = "build"
    THEN /\ m.realiseProgress.expected >= DoneBytes(m)
         /\ \A d \in DOMAIN m.downloads : m.downloads[d].total >= m.downloads[d].done
    ELSE /\ m.transferProgress.expected >= m.transferProgress.done + copiesDone(m.copies)
         /\ \A c \in DOMAIN m.copies : m.copies[c].total >= m.copies[c].done

\* C9 as stated: the build reporter's Run returns a non-nil error exactly when
\* a level-0 message was processed before the stream closed.
C9_ErrorIffLevel0Message ==
    (reporter = "build" /\ run = "done") => ((ret # <<>>) <=> (lvl0 # {}))

\* C9 as amended: the build reporter's Run returns a non-nil error exactly when
\* a level-0 message that is not a trace warning (its text starts with
\* "trace: " and contains "warning:") was processed before the stream closed.
C9_ErrorIffRealError ==
    (reporter = "build" /\ run = "done") =>
        ((ret # <<>>) <=> (\E t \in lvl0 : ~isTraceWarning(t)))

\* Run has returned an error after an error and a level-0 trace warning
C9_ErrorAndTraceWarningSeen ==
    /\ reporter = "build" /\ run = "done"
    /\ ret # <<>>
    /\ TraceWarningText \in lvl0

\* C10: the error a reporter returns contains the text of every error message
\* (level 0, trace warnings aside) that was processed.
C10_ErrorListsEveryText ==
    run = "done" => \A t \in lvl0 : ~isTraceWarning(t) => Contains(ret, t)

(***************************************************************************)
(* A live-reporting operation: NixCommand.runWithReporter starts the       *)
(* command and runs two tasks in a pool, reporter.Run (runTUIModel) and    *)
(* nixc.Wait.  The decoder writes the events it decodes from the command's *)
(* stderr to decoder.Events; runTUIModel's goroutine takes them one by one *)
(* and sends them to the program.  st holds:                               *)
(*   op       "init" | "started" | "ok" | "fail": where runWithReporter is *)
(*   began    whether the command was started                              *)
(*   sig      whether the governing context was cancelled (a signal)       *)
(*   ctx      "live" | "cancelled": the pool's context, which Run is given *)
(*   chan     decoder.Events: the events emitted and not yet received      *)
(*   eof      whether the decoder has closed decoder.Events                *)
(*   quit     "no" | "eof" | "ctx": why the goroutine called p.Quit()      *)
(*   proc     "running" | "zero" | "nonzero": the process and its status   *)
(*   wait     "pending" | "nil" | "err": what nixc.Wait returned           *)
(*   emitted, applied, atQuit   history: the events the decoder emitted,   *)
(*            the events Update was given, and how many had been emitted   *)
(*            when the goroutine saw the cancellation                      *)
(***************************************************************************)
MaxEmit == 3

\* ctx.Err().Error() of a cancelled context
CancelText == <<"context canceled">>

initOperation ==
    [ op |-> "init", began |-> FALSE, sig |-> FALSE, ctx |-> "live",
      chan |-> <<>>, eof |-> FALSE, quit |-> "no",
      proc |-> "running", wait |-> "pending",
      emitted |-> <<>>, applied |-> <<>>, atQuit |-> 0 ]

\* the events of a streamed run; seq numbers the events in emission order
StreamEvents(id, seq) ==
    {[action |-> "start", type |-> "copyPath", id |-> id, path |-> p, seq |-> seq] :
        p \in IF id <= MaxID THEN CopyPaths ELSE {}}
    \cup {[action |-> "stop", id |-> i, seq |-> seq] : i \in 1 .. id - 1}
    \cup {[action |-> "message", level |-> MsgLevelError, text |-> <<"a">>, seq |-> seq]}

\* for ev := range decoder.Events: the next receive and what stays in the channel
chanRecvNewest(q) == [ev |-> q[Len(q)], rest |-> SubSeq(q, 1, Len(q) - 1)]

chanRecv(q) == [ev |-> Head(q), rest |-> Tail(q)]

\* p.Wait() != nil makes the operation fail: the pool joins the tasks' errors
operationResultWaitOnly(waitErr, runErr) ==
    IF waitErr = "nil" THEN "ok" ELSE "fail"

operationResult(waitErr, runErr) ==
    IF waitErr = "nil" /\ runErr = <<>> THEN "ok" ELSE "fail"

InitStream ==
    /\ env = "stream"
    /\ reporter \in {"build", "copy"}
    /\ m = reporterInit(reporter, FALSE)
    /\ msgs = {}
    /\ tick = minFeatureDuration
    /\ now = 0
    /\ run = "running"
    /\ ret = <<>>
    /\ nextID = 1
    /\ sent = EmptyMap
    /\ lvl0 = {}
    /\ scen = Off
    /\ st = initOperation
    /\ conn = Unused
    /\ call = Unused
    /\ vfs = Unused
    /\ ssh = NoCommand

tuiVars == <<env, reporter, m, msgs, tick, now, run, ret, nextID, sent, lvl0, scen>>

\* runWithReporter up to nixc.Start(): creating the command, taking its stderr
\* pipe or starting it may fail, and the operation returns the error at once
OperationStart ==
    /\ st.op = "init"
    /\ \E ok \in BOOLEAN :
          st' = IF ok THEN [st EXCEPT !.op = "started", !.began = TRUE]
                      ELSE [st EXCEPT !.op = "fail"]
    /\ UNCHANGED <<tuiVars, ssh, conn, call, vfs>>

\* the decoder decodes a line of the running command and writes the event
DecoderEmit ==
    /\ st.op = "started" /\ st.proc = "running" /\ ~st.eof
    /\ Len(st.emitted) < MaxEmit
    /\ \E ev \in StreamEvents(nextID, Len(st.emitted) + 1) :
          /\ st' = [st EXCEPT !.chan = Append(@, ev), !.emitted = Append(@, ev)]
          /\ nextID' = IF ev.action = "start" THEN nextID + 1 ELSE nextID
    /\ UNCHANGED <<env, reporter, m, msgs, tick, now, run, ret, sent, lvl0, scen, ssh, conn, call, vfs>>

\* the command exits
ProcessExit ==
    /\ st.op = "started" /\ st.proc = "running"
    /\ \E status \in {"zero", "nonzero"} : st' = [st EXCEPT !.proc = status]
    /\ UNCHANGED <<tuiVars, ssh, conn, call, vfs>>

\* the decoder reaches the end of stderr and closes decoder.Events
DecoderClose ==
    /\ st.op = "started" /\ st.proc # "running" /\ ~st.eof
    /\ st' = [st EXCEPT !.eof = TRUE]
    /\ UNCHANGED <<tuiVars, ssh, conn, call, vfs>>

\* the task nixc.Wait() returns; its error cancels the pool's context
WaitReturn ==
    /\ st.op = "started" /\ st.proc # "running" /\ st.wait = "pending"
    /\ st' = IF st.proc = "zero"
             THEN [st EXCEPT !.wait = "nil"]
             ELSE [st EXCEPT !.wait = "err", !.ctx = "cancelled"]
    /\ UNCHANGED <<tuiVars, ssh, conn, call, vfs>>

\* SIGINT/SIGTERM or the parent cancels the governing context
Cancel ==
    /\ st.op = "started" /\ ~st.sig
    /\ st' = [st EXCEPT !.sig = TRUE, !.ctx = "cancelled"]
    /\ UNCHANGED <<tuiVars, ssh, conn, call, vfs>>

\* the goroutine receives an event, finds the context live and sends the event
ForwardEvent ==
    /\ st.op = "started" /\ st.quit = "no" /\ st.chan # <<>>
    /\ st.ctx = "live"
    /\ LET r == chanRecv(st.chan)
       IN  /\ Process(r.ev)
           /\ st' = [st EXCEPT !.chan = r.rest, !.applied = Append(@, r.ev)]
           /\ lvl0' = IF r.ev.action = "message" /\ r.ev.level = MsgLevelError
                      THEN lvl0 \cup {r.ev.text}
                      ELSE lvl0
    /\ UNCHANGED <<nextID, sent, ssh, conn, call, vfs>>

\* the goroutine receives an event, finds the context cancelled, calls p.Quit()
\* and returns; p.Run() returns the model and runTUIModel returns its error()
QuitOnCancel ==
    /\ st.op = "started" /\ st.quit = "no" /\ st.chan # <<>>
    /\ st.ctx = "cancelled"
    /\ run = "running"
    /\ st' = [st EXCEPT !.chan = chanRecv(@).rest, !.quit = "ctx",
                        !.atQuit = Len(st.emitted)]
    /\ run' = "done"
    /\ ret' = modelError(m)
    /\ UNCHANGED <<env, reporter, m, msgs, tick, now, nextID, sent, lvl0, scen, ssh, conn, call, vfs>>

\* decoder.Events is closed and drained: the loop ends, p.Quit(), Run returns
QuitOnClose ==
    /\ st.op = "started" /\ st.quit = "no" /\ st.chan = <<>> /\ st.eof
    /\ run = "running"
    /\ st' = [st EXCEPT !.quit = "eof"]
    /\ run' = "done"
    /\ ret' = modelError(m)
    /\ UNCHANGED <<env, reporter, m, msgs, tick, now, nextID, sent, lvl0, scen, ssh, conn, call, vfs>>

\* p.Wait() returns when both tasks have returned
OperationReturn ==
    /\ st.op = "started" /\ st.wait # "pending" /\ run = "done"
    /\ st' = [st EXCEPT !.op = operationResult(st.wait, ret)]
    /\ UNCHANGED <<tuiVars, ssh, conn, call, vfs>>

NextStream ==
    \/ OperationStart
    \/ DecoderEmit
    \/ ProcessExit
    \/ DecoderClose
    \/ WaitReturn
    \/ Cancel
    \/ ForwardEvent
    \/ QuitOnCancel
    \/ QuitOnClose
    \/ OperationReturn
    \/ DeliverFeature
    \/ DeliverTick
    \/ Advance

SpecStream == InitStream /\ [][NextStream]_vars

\* C11 (as claimed): when the governing context is cancelled while the
\* operation is in progress and the goroutine observes the cancellation, Run
\* returns a non-nil error that names the cancellation.
C11_CancellationError ==
    (run = "done" /\ st.op # "none" /\ st.sig /\ st.quit = "ctx")
        => (ret # <<>> /\ Contains(ret, CancelText))

\* C12 (as claimed): on cancellation every event the decoder had emitted when
\* the cancellation was observed has been applied when Run returns.
C12_DrainedOnCancel ==
    (run = "done" /\ st.op # "none" /\ st.quit = "ctx")
        => Len(st.applied) = st.atQuit

\* C13: the events Update is given are events the decoder emitted, in the order
\* the decoder emitted them, whatever feature and rotation messages are
\* processed in between.
C13_EventsAppliedInOrder ==
    st.op # "none" =>
        /\ \A i \in 1 .. Len(st.applied) :
              /\ st.applied[i].seq \in 1 .. Len(st.emitted)
              /\ st.applied[i] = st.emitted[st.applied[i].seq]
        /\ \A i, j \in 1 .. Len(st.applied) :
              i < j => st.applied[i].seq < st.applied[j].seq

\* C13 witness: two events were applied while a third waited in the channel,
\* with a feature message processed in between
C13_TwoAppliedAroundFeature ==
    /\ st.op # "none"
    /\ Len(st.applied) >= 2
    /\ st.chan # <<>>
    /\ m.featuredID # 0

\* C14: a started operation returns only after nixc.Wait and reporter.Run have
\* both returned, and it succeeds exactly when the process exited with status
\* zero and Run returned no error.
C14_ReturnsAfterBothTasks ==
    (st.op \in {"ok", "fail"} /\ st.began) =>
        /\ st.wait # "pending"
        /\ run = "done"
        /\ (st.op = "ok") <=> (st.proc = "zero" /\ ret = <<>>)

\* C14 witness: the process exited with status zero, Run returned an error and
\* the operation failed
C14_FailedOnReporterError ==
    /\ st.op = "fail"
    /\ st.began
    /\ st.proc = "zero"
    /\ st.wait = "nil"
    /\ ret # <<>>

(***************************************************************************)
(* Remote commands: sshExecutor.CommandContext creates an sshCommand with  *)
(* a session of its own; callers use Run, or Start followed by Wait        *)
(* (runWithReporter), and PathExists runs `ls` with Run.  Commands of one  *)
(* executor are issued one after the other.  ssh holds, for the current    *)
(* command:                                                                *)
(*   n        how many commands the executor was asked for                 *)
(*   caller   "run" | "startwait" | "pathExists"                           *)
(*   sudo     whether c.cmd is "sudo"                                      *)
(*   stdin    "nil" | "reader" | "file" | "tty": what c.sess.Stdin is      *)
(*   term     the mode of the local terminal; prior is its mode when the   *)
(*            command was created, size its size                           *)
(*   state    c.state: the saved mode, or "nil"                            *)
(*   pty      the pseudo-terminal requested on the session                 *)
(*   sess     the id of the command's session; open: the sessions not      *)
(*            closed; owned: the sessions given to commands, in order      *)
(*   pc       "idle" | "created" | "started" | "waiting" | "joining" |     *)
(*            "ended": where the command is                                *)
(*   remote   "none" | "running" | "exited"; status its exit status        *)
(*   ctx      "live" | "cancelled": c.ctx;  lctx: Wait's local context     *)
(*   watcher  "none" | "select" | "done": Wait's goroutine                 *)
(*   signals  the SIGINTs sent on the session                              *)
(*   err      "none" | "nil" | "exit" | "other": what the caller got       *)
(*   exists   PathExists' result                                           *)
(*   raw, cww history: MakeRaw succeeded; the context was cancelled while  *)
(*            Wait was waiting and the remote command had not completed    *)
(***************************************************************************)
MaxCmds == 2
MaxStatus == 2

TermModes == {"cooked", "noecho"}

\* term.GetSize: the local terminal's size
TermSizes == {[h |-> 24, w |-> 80], [h |-> 50, w |-> 132]}

NoPty == [h |-> 0, w |-> 0]

\* RequestPty("xterm-256color", 80, 24, modes): the size asked for a non-terminal file
DefaultPty == [h |-> 80, w |-> 24]

initExecutor(mode, size) ==
    [ n |-> 0, caller |-> "run", sudo |-> FALSE, stdin |-> "nil",
      term |-> mode, prior |-> mode, size |-> size, state |-> "nil",
      pty |-> NoPty, sess |-> 0, open |-> {}, owned |-> <<>>,
      pc |-> "idle", remote |-> "none", status |-> 0,
      ctx |-> "live", lctx |-> FALSE, watcher |-> "none", signals |-> 0,
      err |-> "none", exists |-> FALSE, raw |-> FALSE, cww |-> FALSE ]

\* the steps of Start that can fail, for a command c
StartFailures(c) ==
    {"none", "start"}
    \cup (IF c.sudo /\ c.stdin = "tty" THEN {"makeraw", "getsize", "pty"} ELSE {})

\* sshCommand.Start; fail names the step that fails ("none": Start succeeds);
\* ptyOK tells whether the server grants the pty asked for a non-terminal file
sshStart(c, fail, ptyOK) ==
    LET viaTty  == c.sudo /\ c.stdin = "tty"
        viaFile == c.sudo /\ c.stdin = "file"
        c1 == IF viaTty /\ fail # "makeraw"
              THEN [c EXCEPT !.state = c.term, !.term = "raw", !.raw = TRUE]
              ELSE c
        c2 == IF viaTty /\ fail \notin {"makeraw", "getsize", "pty"}
              THEN [c1 EXCEPT !.pty = [h |-> c.size.h, w |-> c.size.w]]
              ELSE IF viaFile /\ ptyOK
                   THEN [c1 EXCEPT !.pty = DefaultPty]
                   ELSE c1
    IN  IF fail = "none"
        THEN [c2 EXCEPT !.remote = "running", !.err = "nil"]
        ELSE [c2 EXCEPT !.err = "other"]

\* sshCommand.cleanup
cleanupNoRestore(c) ==
    IF c.state # "nil" THEN [c EXCEPT !.state = "nil"] ELSE c

cleanup(c) ==
    IF c.state # "nil" THEN [c EXCEPT !.term = c.state, !.state = "nil"] ELSE c

\* Wait's goroutine, case <-c.ctx.Done(): c.sess.Signal(ssh.SIGINT)
watcherOnCancelSilent(c) == [c EXCEPT !.watcher = "done"]

watcherOnCancel(c) == [c EXCEPT !.watcher = "done", !.signals = @ + 1]

\* the error sess.Wait() returns for an exit status
sessWaitErr(status) == IF status = 0 THEN "nil" ELSE "exit"

\* PathExists: what it returns for the error of cmd.Run()
pathExistsResult(runErr, status) ==
    IF runErr = "nil" THEN [exists |-> TRUE, err |-> "nil"]
    ELSE IF runErr = "exit" THEN [exists |-> (status # 0), err |-> "nil"]
    ELSE [exists |-> FALSE, err |-> "other"]

\* what the command's caller holds when Run (or Start, or Wait) has returned runErr
callerResult(c, runErr) ==
    IF c.caller = "pathExists"
    THEN LET r == pathExistsResult(runErr, c.status)
         IN  [c EXCEPT !.pc = "ended", !.err = r.err, !.exists = r.exists]
    ELSE [c EXCEPT !.pc = "ended", !.err = runErr]

InitSsh ==
    /\ env = "ssh"
    /\ reporter = "build"
    /\ m = reporterInit("build", FALSE)
    /\ msgs = {}
    /\ tick = NoTick
    /\ now = 0
    /\ run = "running"
    /\ ret = <<>>
    /\ nextID = 1
    /\ sent = EmptyMap
    /\ lvl0 = {}
    /\ scen = Off
    /\ st = NoOperation
    /\ conn = Unused
    /\ call = Unused
    /\ vfs = Unused
    /\ \E mode \in TermModes, size \in TermSizes : ssh = initExecutor(mode, size)

\* CommandContext (Command and PathExists call it with a context that is never
\* cancelled): a new session for the new command, or NewSession's error
SshCreate ==
    /\ ssh.pc \in {"idle", "ended"}
    /\ ssh.n < MaxCmds
    /\ \E caller \in {"run", "startwait", "pathExists"}, sudo \in BOOLEAN,
          stdin \in {"nil", "reader", "file", "tty"}, ok \in BOOLEAN :
          /\ caller = "pathExists" => (~sudo /\ stdin = "nil")
          /\ LET id == ssh.n + 1
                 c  == [ssh EXCEPT !.n = id, !.caller = caller, !.sudo = sudo,
                                   !.stdin = stdin, !.prior = ssh.term,
                                   !.state = "nil", !.pty = NoPty,
                                   !.remote = "none", !.status = 0,
                                   !.ctx = "live", !.lctx = FALSE,
                                   !.watcher = "none", !.signals = 0,
                                   !.err = "none", !.exists = FALSE,
                                   !.raw = FALSE, !.cww = FALSE]
             IN  ssh' = IF ok
                        THEN [c EXCEPT !.sess = id, !.open = @ \cup {id},
                                       !.owned = Append(@, id), !.pc = "created"]
                        ELSE callerResult([c EXCEPT !.sess = 0], "other")
    /\ UNCHANGED <<tuiVars, st, conn, call, vfs>>

\* Start, called by Run or by the caller itself.  When it fails Run returns the
\* error after its deferred cleanup; runWithReporter returns the error as it is
SshStart ==
    /\ ssh.pc = "created"
    /\ \E fail \in StartFailures(ssh), ptyOK \in BOOLEAN :
          LET c == sshStart(ssh, fail, ptyOK)
          IN  ssh' = IF fail = "none"
                     THEN [c EXCEPT !.pc = "started", !.err = "none"]
                     ELSE IF ssh.caller = "startwait"
                          THEN callerResult(c, c.err)
                          ELSE callerResult(cleanup(c), c.err)
    /\ UNCHANGED <<tuiVars, st, conn, call, vfs>>

\* Wait starts its goroutine and blocks in c.sess.Wait()
SshWaitBegin ==
    /\ ssh.pc = "started"
    /\ ssh' = [ssh EXCEPT !.pc = "waiting", !.watcher = "select"]
    /\ UNCHANGED <<tuiVars, st, conn, call, vfs>>

\* the remote process completes
RemoteExit ==
    /\ ssh.remote = "running"
    /\ \E status \in 0 .. MaxStatus :
          ssh' = [ssh EXCEPT !.remote = "exited", !.status = status]
    /\ UNCHANGED <<tuiVars, st, conn, call, vfs>>

\* the context the command was created with is cancelled
SshCancel ==
    /\ ssh.pc \in {"created", "started", "waiting", "joining"}
    /\ ssh.caller # "pathExists"
    /\ ssh.ctx = "live"
    /\ ssh' = [ssh EXCEPT !.ctx = "cancelled",
                          !.cww = (ssh.pc = "waiting" /\ ssh.remote = "running")]
    /\ UNCHANGED <<tuiVars, st, conn, call, vfs>>

\* the goroutine's select takes case <-c.ctx.Done() and signals the session
WatcherSignal ==
    /\ ssh.watcher = "select"
    /\ ssh.ctx = "cancelled"
    /\ ssh' = watcherOnCancel(ssh)
    /\ UNCHANGED <<tuiVars, st, conn, call, vfs>>

\* the goroutine's select takes case <-lctx.Done()
WatcherLocal ==
    /\ ssh.watcher = "select"
    /\ ssh.lctx
    /\ ssh' = [ssh EXCEPT !.watcher = "done"]
    /\ UNCHANGED <<tuiVars, st, conn, call, vfs>>

\* c.sess.Wait() returns once the remote process has completed; cancel()
SshSessWait ==
    /\ ssh.pc = "waiting"
    /\ ssh.remote = "exited"
    /\ ssh' = [ssh EXCEPT !.pc = "joining", !.lctx = TRUE,
                          !.err = sessWaitErr(ssh.status)]
    /\ UNCHANGED <<tuiVars, st, conn, call, vfs>>

SshWaitReturnNoJoin ==
    /\ ssh.pc = "joining"
    /\ LET c == cleanup(ssh)
       IN  ssh' = callerResult([c EXCEPT !.open = @ \ {c.sess}], c.err)
    /\ UNCHANGED <<tuiVars, st, conn, call, vfs>>

\* wg.Wait() returns; the deferred cleanup and sess.Close() run; Wait returns
SshWaitReturn ==
    /\ ssh.pc = "joining"
    /\ ssh.watcher = "done"
    /\ LET c == cleanup(ssh)
       IN  ssh' = callerResult([c EXCEPT !.open = @ \ {c.sess}], c.err)
    /\ UNCHANGED <<tuiVars, st, conn, call, vfs>>

NextSsh ==
    \/ SshCreate
    \/ SshStart
    \/ SshWaitBegin
    \/ RemoteExit
    \/ SshCancel
    \/ WatcherSignal
    \/ WatcherLocal
    \/ SshSessWait
    \/ SshWaitReturn

SpecSsh == InitSsh /\ [][NextSsh]_vars

\* the goroutines of Wait are scheduled; nothing makes the remote process
\* complete, the context be cancelled, or the caller issue a command
SpecSshFair ==
    /\ InitSsh
    /\ [][NextSsh]_vars
    /\ WF_vars(SshWaitBegin)
    /\ WF_vars(WatcherSignal \/ WatcherLocal)
    /\ WF_vars(SshSessWait)
    /\ WF_vars(SshWaitReturn)

\* C15 (as claimed): once the context is cancelled, a Wait that is blocked
\* returns, even if the remote process never completes.
C15_CancelUnblocksWait ==
    (ssh.pc = "waiting" /\ ssh.ctx = "cancelled") ~> (ssh.pc = "ended")

\* C16 (as claimed): when the context was cancelled while the command was
\* waited on and had not completed, a SIGINT has been sent on its session by
\* the time Wait returns; while the context is live no signal is sent.
C16_SignalOnCancel ==
    /\ (ssh.cww /\ ssh.pc = "ended") => ssh.signals > 0
    /\ ssh.ctx = "live" => ssh.signals = 0

\* C16 (amended): a signal is sent only after the context was cancelled, and
\* when the context is cancelled while Wait's goroutine is waiting and the
\* remote command is running, a SIGINT is sent on the session unless the remote
\* command completes first.
C16_SignalUnlessCompleted ==
    /\ [](ssh.signals > 0 => ssh.ctx = "cancelled")
    /\ (ssh.watcher = "select" /\ ssh.ctx = "cancelled" /\ ssh.remote = "running")
          ~> (ssh.signals > 0 \/ ssh.remote = "exited")

\* C16 witness: the context was cancelled while Wait was waiting, the SIGINT
\* was sent and the remote command is still running
C16_SignalledWhileRunning ==
    /\ ssh.cww
    /\ ssh.signals > 0
    /\ ssh.remote = "running"

\* C17 (as claimed): when a command that switched the terminal into raw mode
\* has ended, whichever way, the terminal is back in the mode it had before.
C17_RestoredOnEveryExit ==
    (ssh.pc = "ended" /\ ssh.raw) => ssh.term = ssh.prior

\* C18: a sudo command whose stdin is a terminal has requested a pty of the
\* local terminal's size when the remote command runs, and when the command
\* has completed, with any exit status, the terminal is in its prior mode.
C18_PtyAndRestore ==
    (ssh.sudo /\ ssh.stdin = "tty") =>
        /\ ssh.remote # "none" => ssh.pty = [h |-> ssh.size.h, w |-> ssh.size.w]
        /\ (ssh.pc = "ended" /\ ssh.remote = "exited") => ssh.term = ssh.prior

\* C18 witness: such a command went raw, exited non-zero and the terminal is
\* back in a mode that is not raw
C18_RestoredAfterNonZeroExit ==
    /\ ssh.sudo /\ ssh.stdin = "tty"
    /\ ssh.pc = "ended" /\ ssh.remote = "exited" /\ ssh.status # 0
    /\ ssh.raw
    /\ ssh.pty = [h |-> ssh.size.h, w |-> ssh.size.w]
    /\ ssh.term = ssh.prior /\ ssh.prior \in TermModes

\* C19 (as claimed): a command's session is its own, and it is closed when the
\* command has ended, whichever way.
C19_SessionClosedOnEveryExit ==
    /\ \A i, j \in 1 .. Len(ssh.owned) : i # j => ssh.owned[i] # ssh.owned[j]
    /\ (ssh.pc = "ended" /\ ssh.sess # 0) => ssh.sess \notin ssh.open

\* C20 (as claimed): PathExists returns no error and true exactly when `ls`
\* exited with status zero.
C20_PathExistsIffLsSucceeds ==
    (ssh.caller = "pathExists" /\ ssh.pc = "ended" /\ ssh.remote = "exited")
        => (ssh.err = "nil" /\ (ssh.exists <=> ssh.status = 0))

\* C29 (as claimed): whenever a build or a download is active, a rotation
\* check is pending, whenever the first Start arrives.
C29_RotationCheckPending ==
    (run = "running" /\ Active(m) # {}) => tick # NoTick

MaxIdFiles == 2
MaxKhFiles == 2

\* ssh_config.Default("Port")
DefaultPort == <<"22">>

\* util.GetUser()
InvokingUser == <<"me">>

\* strings.SplitN(s, sep, 2)
SplitN2(s, sep) ==
    IF Contains(s, sep)
    THEN LET i == CHOOSE k \in 1 .. Len(s) :
                      s[k] = sep /\ \A j \in 1 .. k - 1 : s[j] # sep
         IN  <<SubSeq(s, 1, i - 1), SubSeq(s, i + 1, Len(s))>>
    ELSE <<s>>

parseTargetKeepPort(target) ==
    LET a == SplitN2(target, "@")
    IN  [user |-> IF Len(a) = 2 THEN a[1] ELSE <<>>,
         host |-> IF Len(a) = 2 THEN a[2] ELSE a[1],
         port |-> <<>>]

parseTarget(target) ==
    LET a == SplitN2(target, "@")
        h == IF Len(a) = 2 THEN a[2] ELSE a[1]
        b == SplitN2(h, ":")
    IN  [user |-> IF Len(a) = 2 THEN a[1] ELSE <<>>,
         host |-> IF Len(b) = 2 THEN b[1] ELSE h,
         port |-> IF Len(b) = 2 THEN b[2] ELSE <<>>]

\* getKnownHostsFiles: the files named by UserKnownHostsFile that os.Stat
\* finds, or the default file whether it exists or not
getKnownHostsFiles(c) ==
    IF c.khSet
    THEN SelectSeq(c.khFiles, LAMBDA f : f # "missing")
    ELSE c.khFiles

\* buildDefaultConfig: knownhosts.New fails when a file cannot be opened; the
\* callback it makes accepts the keys the files list
buildDefaultConfigInsecure(c) ==
    LET files == getKnownHostsFiles(c)
    IN  IF \E i \in 1 .. Len(files) : files[i] \in {"missing", "unreadable"}
        THEN [err |-> "nil", user |-> c.cfgUser, auth |-> <<"publickey">>,
              hostKey |-> [kind |-> "insecure", db |-> {}]]
        ELSE [err |-> "nil", user |-> c.cfgUser, auth |-> <<"publickey">>,
              hostKey |-> [kind |-> "knownhosts",
                           db |-> {files[i] : i \in 1 .. Len(files)}]]

buildDefaultConfig(c) ==
    LET files == getKnownHostsFiles(c)
    IN  IF \E i \in 1 .. Len(files) : files[i] \in {"missing", "unreadable"}
        THEN [err |-> "knownhosts", user |-> <<>>, auth |-> <<>>,
              hostKey |-> [kind |-> "none", db |-> {}]]
        ELSE [err |-> "nil", user |-> c.cfgUser, auth |-> <<"publickey">>,
              hostKey |-> [kind |-> "knownhosts",
                           db |-> {files[i] : i \in 1 .. Len(files)}]]

\* the keys configFromTarget's check and the public-key callback collect: a
\* loader's error is dropped and the next source is tried
loadAgentKeys(a) ==
    [keys |-> a = "keys", err |-> IF a = "unreachable" THEN "agent" ELSE "nil"]

loadPrivateKeyFromFS(f) ==
    [key |-> f = "plain", err |-> IF f = "encrypted" THEN "encrypted" ELSE "nil"]

availableKeys(c) ==
    (IF ~c.identitiesOnly /\ loadAgentKeys(c.agent).err = "nil"
                          /\ loadAgentKeys(c.agent).keys
     THEN {0} ELSE {})
    \cup {i \in 1 .. Len(c.idFiles) :
               /\ loadPrivateKeyFromFS(c.idFiles[i]).err = "nil"
               /\ loadPrivateKeyFromFS(c.idFiles[i]).key}

\* configFromTarget: the client configuration and the address, or an error
configFromTargetNoKeyCheck(c) ==
    LET t    == parseTarget(c.target)
        port == IF t.port # <<>> THEN t.port
                ELSE IF c.cfgPort # <<>> THEN c.cfgPort ELSE DefaultPort
        conf == buildDefaultConfig(c)
        user == IF t.user # <<>> THEN t.user
                ELSE IF conf.user # <<>> THEN conf.user ELSE InvokingUser
        auth == IF c.terminal THEN Append(conf.auth, "password") ELSE conf.auth
    IN  IF conf.err # "nil"
        THEN [c EXCEPT !.pc = "failed", !.err = conf.err]
        ELSE [c EXCEPT !.pc = "configured", !.user = user, !.auth = auth,
                       !.hostKey = conf.hostKey,
                       !.addr = t.host \o <<":">> \o port]

configFromTarget(c) ==
    LET t    == parseTarget(c.target)
        port == IF t.port # <<>> THEN t.port
                ELSE IF c.cfgPort # <<>> THEN c.cfgPort ELSE DefaultPort
        conf == buildDefaultConfig(c)
        user == IF t.user # <<>> THEN t.user
                ELSE IF conf.user # <<>> THEN conf.user ELSE InvokingUser
        auth == IF c.terminal THEN Append(conf.auth, "password") ELSE conf.auth
    IN  IF conf.err # "nil"
        THEN [c EXCEPT !.pc = "failed", !.err = conf.err]
        ELSE IF ~c.terminal /\ Len(auth) = 1 /\ availableKeys(c) = {}
        THEN [c EXCEPT !.pc = "failed", !.err = "nokeys"]
        ELSE [c EXCEPT !.pc = "configured", !.user = user, !.auth = auth,
                       !.hostKey = conf.hostKey,
                       !.addr = t.host \o <<":">> \o port]

SeqsUpTo(S, n) == UNION {[1 .. k -> S] : k \in 0 .. n}

InitConn ==
    /\ env = "conn"
    /\ reporter = "build"
    /\ m = reporterInit("build", FALSE)
    /\ msgs = {}
    /\ tick = NoTick
    /\ now = 0
    /\ run = "running"
    /\ ret = <<>>
    /\ nextID = 1
    /\ sent = EmptyMap
    /\ lvl0 = {}
    /\ scen = Off
    /\ st = NoOperation
    /\ ssh = NoCommand
    /\ call = Unused
    /\ vfs = Unused
    /\ \E t \in [user : {<<>>, <<"u">>}, host : {<<"h">>},
                  port : {<<>>, <<"2222">>}],
          cu \in {<<>>, <<"cu">>}, cp \in {<<>>, <<"2200">>},
          io \in BOOLEAN, ks \in BOOLEAN, term \in BOOLEAN,
          ag \in {"unreachable", "empty", "keys"},
          kf \in SeqsUpTo({"missing", "unreadable", "match", "other"}, MaxKhFiles),
          idf \in SeqsUpTo({"missing", "plain", "encrypted"}, MaxIdFiles) :
          /\ ~ks => Len(kf) = 1
          /\ conn = [ target |->
                          (IF t.user # <<>> THEN t.user \o <<"@">> ELSE <<>>)
                          \o t.host
                          \o (IF t.port # <<>> THEN <<":">> \o t.port ELSE <<>>),
                      tUser |-> t.user, tHost |-> t.host, tPort |-> t.port,
                      cfgUser |-> cu, cfgPort |-> cp, identitiesOnly |-> io,
                      khSet |-> ks, khFiles |-> kf, terminal |-> term,
                      agent |-> ag, idFiles |-> idf,
                      pc |-> "init", err |-> "nil", user |-> <<>>, addr |-> <<>>,
                      auth |-> <<>>, hostKey |-> [kind |-> "none", db |-> {}],
                      dialed |-> FALSE, prompted |-> FALSE ]

\* NewSSHExecutor: configFromTarget, its error returned at once
Configure ==
    /\ conn.pc = "init"
    /\ conn' = configFromTarget(conn)
    /\ UNCHANGED <<tuiVars, st, ssh, call, vfs>>

\* ssh.Dial: the TCP connection and the key exchange, in which the
\* configuration's HostKeyCallback judges the key the server presents
Handshake ==
    /\ conn.pc = "configured"
    /\ \E reachable \in BOOLEAN :
          conn' = IF ~reachable
                  THEN [conn EXCEPT !.pc = "failed", !.err = "network", !.dialed = TRUE]
                  ELSE IF conn.hostKey.kind = "insecure" \/ "match" \in conn.hostKey.db
                  THEN [conn EXCEPT !.pc = "verified", !.dialed = TRUE]
                  ELSE [conn EXCEPT !.pc = "failed", !.err = "hostkey", !.dialed = TRUE]
    /\ UNCHANGED <<tuiVars, st, ssh, call, vfs>>

\* ssh.Dial: the authentication methods in turn: the keys of the public-key
\* callback, then, with a terminal, the password prompt
Authenticate ==
    /\ conn.pc = "verified"
    /\ \E keyOK \in BOOLEAN, passwordOK \in BOOLEAN :
          conn' = IF availableKeys(conn) # {} /\ keyOK
                  THEN [conn EXCEPT !.pc = "connected"]
                  ELSE IF Contains(conn.auth, "password")
                  THEN [conn EXCEPT !.prompted = TRUE,
                                    !.pc = IF passwordOK THEN "connected" ELSE "failed",
                                    !.err = IF passwordOK THEN "nil" ELSE "auth"]
                  ELSE [conn EXCEPT !.pc = "failed", !.err = "auth"]
    /\ UNCHANGED <<tuiVars, st, ssh, call, vfs>>

NextConn ==
    \/ Configure
    \/ Handshake
    \/ Authenticate

SpecConn == InitConn /\ [][NextConn]_vars

C22_EncryptedKeyRejected ==
    ( /\ conn.pc \in {"connected", "failed"}
      /\ \E i \in 1 .. Len(conn.idFiles) : conn.idFiles[i] = "encrypted" )
    => /\ conn.pc = "failed"
       /\ conn.err = "encrypted"

\* C23: every configuration configFromTarget returns verifies the host key
\* against known-hosts files, and the connection gets past the key exchange
\* only when one of the known-hosts files lists the key the server presents.
C23_HostKeyVerified ==
    /\ conn.pc \in {"configured", "verified", "connected"}
          => conn.hostKey.kind = "knownhosts"
    /\ conn.pc \in {"verified", "connected"}
          => \E i \in 1 .. Len(conn.khFiles) : conn.khFiles[i] = "match"
    /\ ( /\ conn.dialed
         /\ conn.err # "network"
         /\ \A i \in 1 .. Len(conn.khFiles) : conn.khFiles[i] # "match" )
          => conn.pc = "failed" /\ conn.err = "hostkey"

C23_EmptyListRejects ==
    /\ conn.khSet
    /\ \A i \in 1 .. Len(conn.khFiles) : conn.khFiles[i] = "missing"
    /\ conn.dialed
    /\ conn.pc = "failed"
    /\ conn.err = "hostkey"

\* C24: the configuration's user is the target's user, else the SSH config's
\* User, else the invoking user; the address is the target's host alone, a
\* colon, and the target's port, else the SSH config's Port, else the default.
C24_UserHostPortPrecedence ==
    conn.pc \in {"configured", "verified", "connected"}
    => /\ conn.user = IF conn.tUser # <<>> THEN conn.tUser
                      ELSE IF conn.cfgUser # <<>> THEN conn.cfgUser
                      ELSE InvokingUser
       /\ conn.addr = conn.tHost \o <<":">> \o
                      (IF conn.tPort # <<>> THEN conn.tPort
                       ELSE IF conn.cfgPort # <<>> THEN conn.cfgPort
                       ELSE DefaultPort)

C24_ExplicitUserAndPort ==
    /\ conn.pc = "connected"
    /\ conn.tUser # <<>>
    /\ conn.tPort # <<>>
    /\ conn.cfgUser # <<>>
    /\ conn.cfgPort # <<>>
    /\ conn.user = conn.tUser
    /\ conn.addr = conn.tHost \o <<":">> \o conn.tPort

(***************************************************************************)
(* Calls of the program's pure computations.  call holds one call:         *)
(*   fn   "run" (NixCommand.Run up to the command line it hands to the     *)
(*        executor) | "clean" (the plan of cleanGenerations) | "diff"      *)
(*        (calculatePackageDiff)                                           *)
(*   in   the inputs;  pc  "ready" | "done";  out  the result              *)
(***************************************************************************)
MaxArgs == 2
MaxGen == 4
MaxKeep == 3
MaxPkgs == 2

\* runStdout: the command line given to exec.CommandContext
runStdout(cmd, args) == [cmd |-> cmd, args |-> args]

\* runWithReporter: the command line given to exec.CommandContext
runWithReporter(cmd, args) ==
    [cmd |-> cmd, args |-> args \o <<"--log-format", "internal-json", "-v">>]

NixCommandRunAlwaysJSON(c) ==
    LET cmd  == IF c.privileged THEN "sudo" ELSE "nix"
        a0   == IF c.privileged THEN <<"nix">> ELSE <<>>
        a1   == a0 \o <<c.cmd, "--extra-experimental-features", "nix-command">>
        a2   == a1 \o c.args
        args == IF c.cmd = "build" THEN Append(a2, "--print-out-paths") ELSE a2
    IN  runWithReporter(cmd, args)

\* NixCommand.Run
NixCommandRun(c) ==
    LET cmd  == IF c.privileged THEN "sudo" ELSE "nix"
        a0   == IF c.privileged THEN <<"nix">> ELSE <<>>
        a1   == a0 \o <<c.cmd, "--extra-experimental-features", "nix-command">>
        a2   == a1 \o c.args
        args == IF c.cmd = "build" THEN Append(a2, "--print-out-paths") ELSE a2
    IN  IF c.reporter THEN runWithReporter(cmd, args) ELSE runStdout(cmd, args)

\* sortGenerationsDesc: the generation IDs, highest first
RECURSIVE sortGenerationsDesc(_)
sortGenerationsDesc(S) ==
    IF S = {} THEN <<>>
    ELSE LET top == CHOOSE x \in S : \A y \in S : y <= x
         IN  <<top>> \o sortGenerationsDesc(S \ {top})

\* remaining is an unsigned integer: the model writes the value 2^64 - k as
\* -k, so that remaining -= 1 is r - 1 for every value the loop can reach,
\* remaining > 0 is r # 0 and remaining == 1 is r = 1
uintDec(r) == r - 1

\* cleanGenerations: the loop that makes the plan, from position i on
RECURSIVE makePlan(_, _, _, _, _)
makePlan(gens, i, current, remaining, foundCurrent) ==
    IF i > Len(gens) THEN <<>>
    ELSE LET isCurrent == gens[i] = current
             doKeep == IF isCurrent THEN TRUE
                       ELSE IF ~foundCurrent /\ remaining = 1 THEN FALSE
                       ELSE remaining # 0
         IN  <<[id |-> gens[i], keep |-> doKeep]>>
             \o makePlan(gens, i + 1, current,
                         IF doKeep THEN uintDec(remaining) ELSE remaining,
                         foundCurrent \/ isCurrent)

\* cleanGenerations: the plan for the listed generations
cleanGenerations(c) ==
    makePlan(sortGenerationsDesc(c.generations), 1, c.current, c.keep, FALSE)

\* package names and versions, each in sorted order
PackageNames == <<"bash", "curl">>
PackageVersions == <<"1.0", "2.0">>

\* the index calculatePackageDiff builds: name -> set of versions
packageIndex(pkgs) ==
    [n \in {pkgs[i].name : i \in 1 .. Len(pkgs)} |->
        {pkgs[i].version : i \in {j \in 1 .. Len(pkgs) : pkgs[j].name = n}}]

\* setToSlice: the versions of the set, sorted
setToSlice(vers) == SelectSeq(PackageVersions, LAMBDA v : v \in vers)

\* !slices.Equal(setToSlice(vers), setToSlice(other))
versionsDifferByCount(vers, other) ==
    Len(setToSlice(vers)) # Len(setToSlice(other))

versionsDiffer(vers, other) ==
    setToSlice(vers) # setToSlice(other)

\* the type of the change calculatePackageDiff appends for a name, or "none"
changeType(n, beforeIdx, afterIdx) ==
    IF n \in DOMAIN beforeIdx /\ n \notin DOMAIN afterIdx THEN "Removed"
    ELSE IF n \in DOMAIN beforeIdx /\ versionsDiffer(beforeIdx[n], afterIdx[n])
    THEN "Changed"
    ELSE IF n \notin DOMAIN beforeIdx /\ n \in DOMAIN afterIdx THEN "Added"
    ELSE "none"

\* calculatePackageDiff: the changes sorted by name
calculatePackageDiff(before, after) ==
    LET beforeIdx == packageIndex(before)
        afterIdx  == packageIndex(after)
        names == SelectSeq(PackageNames, LAMBDA n :
                     /\ n \in DOMAIN beforeIdx \cup DOMAIN afterIdx
                     /\ changeType(n, beforeIdx, afterIdx) # "none")
    IN  [Changes |->
            [i \in 1 .. Len(names) |->
                [Name |-> names[i],
                 Type |-> changeType(names[i], beforeIdx, afterIdx),
                 Before |-> IF names[i] \in DOMAIN beforeIdx
                            THEN setToSlice(beforeIdx[names[i]]) ELSE <<>>,
                 After |-> IF names[i] \in DOMAIN afterIdx
                           THEN setToSlice(afterIdx[names[i]]) ELSE <<>>]],
         NumBefore |-> Cardinality(DOMAIN beforeIdx),
         NumAfter |-> Cardinality(DOMAIN afterIdx)]

\* the packages a query can list
Packages ==
    [name : {PackageNames[i] : i \in 1 .. Len(PackageNames)},
     version : {PackageVersions[i] : i \in 1 .. Len(PackageVersions)}]

\* the error of running a command on the remote host: a transport failure, or
\* the command's exit status (x/crypto/ssh reports only non-zero statuses)
remoteRunErr(c, status) ==
    IF ~c.transport THEN "other" ELSE sessWaitErr(status)

\* localFileDeleter.delete (os.Remove) and remoteFileDeleter.delete (rm)
deleterDelete(c) ==
    IF c.executor \in {"nil", "local"}
    THEN IF ~c.link THEN "notexist" ELSE IF ~c.permitted THEN "perm" ELSE "nil"
    ELSE remoteRunErr(c, IF c.link /\ c.permitted THEN 0 ELSE 1)

\* DeleteWithExecutor: the error returned and whether the link is there
\* afterwards; `ls` exits with status 2 for a path that does not exist
DeleteWithExecutor(c) ==
    LET err == deleterDelete(c)
        lsStatus == IF c.link THEN 0 ELSE 2
        exists == pathExistsResult(remoteRunErr(c, lsStatus), lsStatus).exists
    IN  IF err = "nil" THEN [err |-> "nil", link |-> FALSE]
        ELSE IF c.executor = "remote" /\ ~exists
        THEN [err |-> "nil", link |-> c.link]
        ELSE [err |-> err, link |-> c.link]

\* strings.Split(s, sep)
RECURSIVE Split(_, _)
Split(s, sep) ==
    IF Contains(s, sep)
    THEN LET a == SplitN2(s, sep) IN <<a[1]>> \o Split(a[2], sep)
    ELSE <<s>>

\* util.ParseTarget
ParseTarget(target) ==
    LET parts == Split(target, "@")
    IN  IF Len(parts) = 2
        THEN [user |-> parts[1], hostname |-> parts[2]]
        ELSE [user |-> <<>>, hostname |-> target]

\* p[44:] fails with "slice bounds out of range" when len(p) < 44
extractNamePanics(p) == Len(p) < StorePrefixLen

InitCalls ==
    /\ env = "calls"
    /\ reporter = "build"
    /\ m = reporterInit("build", FALSE)
    /\ msgs = {}
    /\ tick = NoTick
    /\ now = 0
    /\ run = "running"
    /\ ret = <<>>
    /\ nextID = 1
    /\ sent = EmptyMap
    /\ lvl0 = {}
    /\ scen = Off
    /\ st = NoOperation
    /\ ssh = NoCommand
    /\ conn = Unused
    /\ vfs = Unused
    /\ \/ \E c \in [cmd : {"build", "copy"},
                    args : SeqsUpTo({"-L", "./result"}, MaxArgs),
                    privileged : BOOLEAN, reporter : BOOLEAN] :
             call = [fn |-> "run", in |-> c, pc |-> "ready", out |-> <<>>]
       \/ \E c \in [generations : SUBSET (1 .. MaxGen), current : 1 .. MaxGen,
                    keep : 0 .. MaxKeep] :
             /\ c.current \in c.generations
             /\ call = [fn |-> "clean", in |-> c, pc |-> "ready", out |-> <<>>]
       \/ \E before \in SeqsUpTo(Packages, MaxPkgs),
             after \in SeqsUpTo(Packages, MaxPkgs) :
             call = [fn |-> "diff", in |-> [before |-> before, after |-> after],
                     pc |-> "ready", out |-> <<>>]
       \/ \E c \in [executor : {"nil", "local", "remote"}, link : BOOLEAN,
                    permitted : BOOLEAN, transport : BOOLEAN] :
             /\ c.executor # "remote" => c.transport
             /\ call = [fn |-> "delete", in |-> c, pc |-> "ready", out |-> <<>>]
       \/ \E u \in {<<>>, <<"u">>}, h \in {<<"h">>, <<"h", ".", "lan">>},
             p \in {<<>>, <<"2222">>} :
             call = [fn |-> "parse",
                     in |-> (IF u = <<>> THEN <<>> ELSE u \o <<"@">>) \o h \o
                            (IF p = <<>> THEN <<>> ELSE <<":">> \o p),
                     pc |-> "ready", out |-> <<>>]
       \/ \E verbose \in BOOLEAN, ty \in {"build", "copyPath"},
             p \in BuildPaths \cup CopyPaths
                      \cup {SubSeq(StorePrefix, 1, n) : n \in {0, 11, 43, 44}} :
             call = [fn |-> "start",
                     in |-> [verbose |-> verbose,
                             ev |-> [action |-> "start", type |-> ty, id |-> 1,
                                     path |-> p]],
                     pc |-> "ready", out |-> <<>>]

CallRun ==
    /\ call.pc = "ready"
    /\ call.fn = "run"
    /\ call' = [call EXCEPT !.pc = "done", !.out = NixCommandRun(call.in)]
    /\ UNCHANGED <<tuiVars, st, ssh, conn, vfs>>

CallCleanGenerations ==
    /\ call.pc = "ready"
    /\ call.fn = "clean"
    /\ call' = [call EXCEPT !.pc = "done", !.out = cleanGenerations(call.in)]
    /\ UNCHANGED <<tuiVars, st, ssh, conn, vfs>>

CallCalculatePackageDiff ==
    /\ call.pc = "ready"
    /\ call.fn = "diff"
    /\ call' = [call EXCEPT !.pc = "done",
                   !.out = calculatePackageDiff(call.in.before, call.in.after)]
    /\ UNCHANGED <<tuiVars, st, ssh, conn, vfs>>

CallDeleteWithExecutor ==
    /\ call.pc = "ready"
    /\ call.fn = "delete"
    /\ call' = [call EXCEPT !.pc = "done", !.out = DeleteWithExecutor(call.in)]
    /\ UNCHANGED <<tuiVars, st, ssh, conn, vfs>>

\* listGenerations / cleanGenerations take the host name to compare from
\* util.ParseTarget; NewSSHExecutor takes the host to dial from parseTarget
CallParseTarget ==
    /\ call.pc = "ready"
    /\ call.fn = "parse"
    /\ call' = [call EXCEPT !.pc = "done",
                   !.out = [util |-> ParseTarget(call.in),
                            ssh |-> parseTarget(call.in)]]
    /\ UNCHANGED <<tuiVars, st, ssh, conn, vfs>>

\* Update of a fresh build model for a Start event of a build or a download
CallHandleStartEvent ==
    /\ call.pc = "ready"
    /\ call.fn = "start"
    /\ call' = [call EXCEPT
                   !.pc = "done",
                   !.out = IF extractNamePanics(call.in.ev.path)
                           THEN [panic |-> TRUE, outs |-> {}]
                           ELSE [panic |-> FALSE,
                                 outs |-> buildHandleStartEvent(
                                              reporterInit("build", call.in.verbose),
                                              call.in.ev)]]
    /\ UNCHANGED <<tuiVars, st, ssh, conn, vfs>>

NextCalls ==
    \/ CallRun
    \/ CallCleanGenerations
    \/ CallCalculatePackageDiff
    \/ CallDeleteWithExecutor
    \/ CallParseTarget
    \/ CallHandleStartEvent

SpecCalls == InitCalls /\ [][NextCalls]_vars

\* C25: the command is sudo with nix as first argument exactly when the
\* operation is privileged, else nix; the caller's arguments follow the fixed
\* leading flags in their order; the structured-log flags end the command line
\* when a Reporter is configured and are absent when none is.
C25_CommandLine ==
    (call.fn = "run" /\ call.pc = "done")
    => LET c    == call.in
           pre  == IF c.privileged THEN <<"nix">> ELSE <<>>
           lead == pre \o <<c.cmd, "--extra-experimental-features", "nix-command">>
           args == call.out.args
           n    == Len(args)
           rest == SubSeq(args, Len(lead) + Len(c.args) + 1, n)
       IN  /\ call.out.cmd = IF c.privileged THEN "sudo" ELSE "nix"
           /\ ~c.privileged => args[1] # "nix"
           /\ n >= Len(lead) + Len(c.args)
           /\ SubSeq(args, 1, Len(lead)) = lead
           /\ SubSeq(args, Len(lead) + 1, Len(lead) + Len(c.args)) = c.args
           /\ c.reporter =>
                 /\ n >= 3
                 /\ SubSeq(args, n - 2, n) = <<"--log-format", "internal-json", "-v">>
           /\ ~c.reporter =>
                 \A i \in 1 .. Len(rest) :
                     rest[i] \notin {"--log-format", "internal-json", "-v"}

C25_PrivilegedCapture ==
    /\ call.fn = "run"
    /\ call.pc = "done"
    /\ call.in.privileged
    /\ ~call.in.reporter
    /\ Len(call.in.args) = MaxArgs
    /\ call.in.args[1] # call.in.args[2]
    /\ call.out.cmd = "sudo"

\* C26: in the plan exactly the N generations with the highest IDs (all of
\* them when fewer than N exist) are kept and every other one is deleted.
C26_KeepsHighestN ==
    (call.fn = "clean" /\ call.pc = "done")
    => LET gens == call.in.generations
           top  == {g \in gens :
                       Cardinality({h \in gens : h > g}) < call.in.keep}
       IN  \A i \in 1 .. Len(call.out) :
               call.out[i].keep <=> call.out[i].id \in top

\* C27: a name has an Added change iff it occurs only in the after list, a
\* Removed change iff only in the before list, a Changed change iff in both
\* with different version sets, and no change otherwise; NumBefore and
\* NumAfter count the distinct names of the lists.
C27_DiffClassification ==
    (call.fn = "diff" /\ call.pc = "done")
    => LET b  == call.in.before
           a  == call.in.after
           nb == {b[i].name : i \in 1 .. Len(b)}
           na == {a[i].name : i \in 1 .. Len(a)}
           vb(n) == {b[i].version : i \in {j \in 1 .. Len(b) : b[j].name = n}}
           va(n) == {a[i].version : i \in {j \in 1 .. Len(a) : a[j].name = n}}
           ch == call.out.Changes
           types(n) == {ch[i].Type : i \in {j \in 1 .. Len(ch) : ch[j].Name = n}}
       IN  /\ \A n \in nb \cup na :
                 /\ "Added" \in types(n) <=> n \in na \ nb
                 /\ "Removed" \in types(n) <=> n \in nb \ na
                 /\ "Changed" \in types(n) <=> (n \in nb \cap na /\ vb(n) # va(n))
                 /\ Cardinality({j \in 1 .. Len(ch) : ch[j].Name = n}) <= 1
           /\ \A i \in 1 .. Len(ch) : ch[i].Name \in nb \cup na
           /\ call.out.NumBefore = Cardinality(nb)
           /\ call.out.NumAfter = Cardinality(na)

C27_ChangedSameCount ==
    /\ call.fn = "diff"
    /\ call.pc = "done"
    /\ \E i \in 1 .. Len(call.out.Changes) :
          /\ call.out.Changes[i].Type = "Changed"
          /\ Len(call.out.Changes[i].Before) = Len(call.out.Changes[i].After)
    /\ Len(call.in.before) = MaxPkgs

(***************************************************************************)
(* The virtiofsd runner after Start: monitorLog reads the supervisord log  *)
(* line by line.  vfs holds                                                *)
(*   pc          "monitoring" | "returned"                                 *)
(*   spawned, running   the maps of monitorLog                             *)
(*   ready       the errors delivered on readyChan; closed: whether        *)
(*               readyChan (and runningChan) were closed                   *)
(*   runningChan the names sent on runningChan                             *)
(*   ctxDone     whether the context of monitorLog is done (cancelled or   *)
(*               timed out)                                                *)
(*   lines       the number of log lines read                              *)
(***************************************************************************)
MaxLines == 4
RunningChanCap == 10

\* the process names the log can mention
Procs == {"virtiofsd-a", "virtiofsd-b"}

\* monitorLog: return, with an error sent on readyChan first when there is one
monitorReturn(v, errs) ==
    [v EXCEPT !.pc = "returned", !.ready = @ \o errs, !.closed = TRUE]

\* monitorLog: one iteration of the scanner loop, for a line of the given kind
\* about process p
monitorLine(v, kind, p) ==
    LET v1 == [v EXCEPT !.lines = @ + 1]
    IN  IF v.ctxDone THEN monitorReturn(v1, <<"timeout">>)
        ELSE IF kind = "gaveup" THEN monitorReturn(v1, <<"gaveup">>)
        ELSE IF kind = "spawned" THEN [v1 EXCEPT !.spawned = @ \cup {p}]
        ELSE IF kind = "running"
        THEN LET v2 == [v1 EXCEPT !.running = @ \cup {p},
                                  !.runningChan = IF Len(@) < RunningChanCap
                                                  THEN Append(@, p) ELSE @]
             IN  IF Cardinality(v2.spawned) > 0
                    /\ Cardinality(v2.running) = Cardinality(v2.spawned)
                 THEN monitorReturn(v2, <<>>)
                 ELSE v2
        ELSE IF kind = "exited" THEN monitorReturn(v1, <<"exited">>)
        ELSE v1

InitVfs ==
    /\ env = "vfs"
    /\ reporter = "build"
    /\ m = reporterInit("build", FALSE)
    /\ msgs = {}
    /\ tick = NoTick
    /\ now = 0
    /\ run = "running"
    /\ ret = <<>>
    /\ nextID = 1
    /\ sent = EmptyMap
    /\ lvl0 = {}
    /\ scen = Off
    /\ st = NoOperation
    /\ ssh = NoCommand
    /\ conn = Unused
    /\ call = Unused
    /\ vfs = [pc |-> "monitoring", spawned |-> {}, running |-> {},
              ready |-> <<>>, closed |-> FALSE, runningChan |-> <<>>,
              ctxDone |-> FALSE, lines |-> 0]

\* scanner.Scan() gives a line
LogLine ==
    /\ vfs.pc = "monitoring"
    /\ vfs.lines < MaxLines
    /\ \E kind \in {"spawned", "running", "exited", "gaveup", "other"},
          p \in Procs :
          vfs' = monitorLine(vfs, kind, p)
    /\ UNCHANGED <<tuiVars, st, ssh, conn, call>>

\* scanner.Scan() gives false at the end of the log: the process has exited
\* and the pipe was closed
LogEnd ==
    /\ vfs.pc = "monitoring"
    /\ vfs' = monitorReturn(vfs, <<"closed">>)
    /\ UNCHANGED <<tuiVars, st, ssh, conn, call>>

\* scanner.Scan() gives false with scanner.Err() set
LogReadError ==
    /\ vfs.pc = "monitoring"
    /\ vfs' = monitorReturn(vfs, <<"read">>)
    /\ UNCHANGED <<tuiVars, st, ssh, conn, call>>

\* the context is cancelled or readyTimeout expires
CtxDone ==
    /\ vfs.pc = "monitoring"
    /\ ~vfs.ctxDone
    /\ vfs' = [vfs EXCEPT !.ctxDone = TRUE]
    /\ UNCHANGED <<tuiVars, st, ssh, conn, call>>

NextVfs ==
    \/ LogLine
    \/ LogEnd
    \/ LogReadError
    \/ CtxDone

SpecVfs == InitVfs /\ [][NextVfs]_vars

\* the timer of context.WithTimeout fires; nothing makes supervisord write a
\* line or the log end, and monitorLog has no step of its own while
\* scanner.Scan() blocks
SpecVfsFair ==
    /\ InitVfs
    /\ [][NextVfs]_vars
    /\ WF_vars(CtxDone)

\* C28: Ready is closed with no value delivered only when at least one process
\* was spawned and every spawned process has been observed entering RUNNING;
\* otherwise exactly one error has been delivered when it is closed.
C28_ReadyOnlyWhenAllRunning ==
    vfs.closed
    => IF vfs.ready = <<>>
       THEN vfs.spawned # {} /\ vfs.spawned \subseteq vfs.running
       ELSE Len(vfs.ready) = 1

\* the choice of item `id` of category `kind` as the next featured item, made
\* with the model mm, follows the policy: the item is active, and it is of the
\* category opposite to the featured one whenever that category has an item
FollowsPolicy(mm, id, kind) ==
    /\ \/ kind = "build" /\ id \in DOMAIN mm.builds
       \/ kind = "download" /\ id \in DOMAIN mm.downloads
    /\ (mm.featuredKind = "build" /\ DOMAIN mm.downloads # {}) => kind = "download"
    /\ (mm.featuredKind = "download" /\ DOMAIN mm.builds # {}) => kind = "build"

\* C31: in the build reporter, the item a rotation tick puts in the featured
\* slot, and the item chosen when the featured item stops, is an active item,
\* a download when the featured one is a build and a download is active, a
\* build when the featured one is a download and a build is active, and of the
\* same category only when the opposite category is empty.
C31_OppositeCategoryFirst ==
    [][ reporter = "build" =>
          /\ ( /\ DeliverTick
               /\ m'.featuredID # 0
               /\ m'.featuredID # m.featuredID )
             => FollowsPolicy(m, m'.featuredID, m'.featuredKind)
          /\ \A ev \in StopEvents(env) :
               (m.featuredID = ev.id /\ Process(ev))
               => \A f \in msgs' \ msgs : FollowsPolicy(m', f.id, f.kind)
      ]_vars

C31_DownloadFeaturedAmongBuilds ==
    /\ reporter = "build"
    /\ run = "running"
    /\ m.featuredKind = "download"
    /\ m.featuredID \in DOMAIN m.downloads
    /\ DOMAIN m.builds # {}
    /\ m.featuredSince >= minFeatureDuration
    /\ msgs = {}

\* the item a Result event is for: the build or download (copy) whose id it
\* carries, or the download (copy) that is the parent of the file transfer
\* whose id it carries; 0 when there is none
ResultItem(mm, ev) ==
    IF ev.id \in Active(mm) THEN ev.id
    ELSE IF ev.id \in DOMAIN mm.transfers /\ mm.transfers[ev.id] \in Active(mm)
    THEN mm.transfers[ev.id]
    ELSE 0

\* the status line of the featured item once the Result event is applied to it
RefreshedLine(mm, ev) ==
    IF ev.type = "setPhase"
    THEN buildString([name |-> mm.builds[mm.featuredID].name, phase |-> ev.phase])
    ELSE LET items == IF reporter = "build" THEN mm.downloads ELSE mm.copies
         IN  copyString([name |-> items[mm.featuredID].name,
                         done |-> ev.done, total |-> ev.expected])

\* C32: a phase-change or byte-progress Result for the currently featured item
\* leaves the status line showing that item with the reported phase or bytes,
\* in the same step; a Result for any other item leaves the status line as it
\* was.
C32_ResultRefreshesFeatured ==
    [][ \A ev \in ResultEvents(env) :
          ( /\ ev.type \in {"setPhase", "progress"}
            /\ ev.type = "setPhase" =>
                  reporter = "build" /\ ev.id \in DOMAIN m.builds
            /\ ev.type = "progress" =>
                  ResultItem(m, ev) \in (Active(m) \ (IF reporter = "build"
                                                      THEN DOMAIN m.builds ELSE {}))
            /\ Process(ev)
            /\ ev.type = "progress" =>
                  /\ ev.id \in DOMAIN sent'
                  /\ sent'[ev.id] = [done |-> ev.done, expected |-> ev.expected]
            /\ UNCHANGED <<nextID, lvl0>> )
          => IF FeaturesLiveItem(m) /\ ResultItem(m, ev) = m.featuredID
             THEN m'.lastMsg = RefreshedLine(m, ev)
             ELSE m'.lastMsg = m.lastMsg
      ]_vars

C34_KeepsAtMostKeep ==
    (call.fn = "clean" /\ call.pc = "done")
    => LET kept == {i \in 1 .. Len(call.out) : call.out[i].keep}
           most == IF call.in.keep > 1 THEN call.in.keep ELSE 1
       IN  /\ \E i \in kept : call.out[i].id = call.in.current
           /\ Cardinality(kept) <= most

\* C35: deleting a generation whose link has already been removed returns
\* success (nil), for a remote executor as well as for the local one.
C35_MissingLinkIsSuccess ==
    (call.fn = "delete" /\ call.pc = "done" /\ ~call.in.link)
    => call.out.err = "nil"

\* C36: for every target [user@]host[:port], util.ParseTarget and the SSH
\* executor's parseTarget return the same user and the same host name.
C36_ParsersAgree ==
    (call.fn = "parse" /\ call.pc = "done")
    => /\ call.out.util.user = call.out.ssh.user
       /\ call.out.util.hostname = call.out.ssh.host

\* C37: when readyTimeout expires while monitorLog is still waiting for the
\* spawned processes to be RUNNING, the timeout error is delivered and Ready
\* is closed, even when no further log line is ever written.
C37_TimeoutDelivered ==
    (vfs.pc = "monitoring" /\ vfs.ctxDone) ~> vfs.closed

\* C38: handling a Start event of a build or a download is total: for every
\* path, those shorter than the 44-character store prefix included, the event
\* is processed without a runtime failure and the item joins the active set.
C38_StartIsTotal ==
    (call.fn = "start" /\ call.pc = "done")
    => /\ ~call.out.panic
       /\ call.out.outs # {}
       /\ \A o \in call.out.outs :
             call.in.ev.id \in DOMAIN o.m.builds \cup DOMAIN o.m.downloads

\* C39: the goroutine started by Wait has terminated whenever Wait has
\* returned, on the completion path and on the cancellation path, and a Wait
\* that waits for its goroutine does return.
C39_WatcherJoined ==
    /\ [](ssh.pc = "ended" => ssh.watcher # "select")
    /\ (ssh.pc = "joining") ~> (ssh.pc = "ended")

C39_ReturnedAfterCancel ==
    /\ ssh.pc = "ended"
    /\ ssh.watcher = "done"
    /\ ssh.ctx = "cancelled"
    /\ ssh.signals > 0
    /\ ssh.lctx

====
